---------------------------- MODULE Spec2Model ----------------------------
(***************************************************************************)
(* Verification model of the platformer: the tile physics engine           *)
(* (engine.js), the Player controller (player.js), the AI ghost            *)
(* (ai-player.js) and the Game orchestrator (game.js).                     *)
(*                                                                         *)
(* Numbers.  The JavaScript code works on IEEE doubles.  The model works   *)
(* in fixed point: every length and velocity is an integer number of       *)
(* 1/Unit pixels (Unit = 100), so 0.6 is 60 and one 16 px tile is 1600.    *)
(* All constants of the code are exact multiples of 1/100 px; the only     *)
(* products that leave the grid are vx * FRICTION and dx / 40, which are   *)
(* rounded to 1/100 px (see friction and approachSpeed).  Math.floor(a/b)  *)
(* is a \div b (TLA+ \div rounds towards minus infinity, as Math.floor).   *)
(*                                                                         *)
(* Fields that only drive rendering (animFrame, animTimer, floatOffset,    *)
(* particles, floating texts, commentary and shake timers) are left out.   *)
(***************************************************************************)
EXTENDS Integers, Sequences, FiniteSets, TLC

VARIABLES
    grid,     \* the tile grid: PhysicsEngine.levelData / Game.level.tiles
    ent,      \* a plain kinematic entity handed to the PhysicsEngine
    player,   \* the Player object
    ai,       \* the AIPlayer object
    game,     \* the fields of the Game orchestrator
    harness,  \* which object the harness drives
    obs,      \* what the last operation did: its name, the object before
              \* it, its return value and the callbacks it invoked
    steps     \* number of operations performed so far (bounded)

vars == <<grid, ent, player, ai, game, harness, obs, steps>>

---------------------------------------------------------------------------
(* Constants of the code, in 1/Unit pixels.                                *)

Unit == 10 * 10

TILE_SIZE      == 16 * Unit
GRAVITY        == (6 * Unit) \div 10
MAX_FALL_SPEED == 10 * Unit
FRICTION_NUM   == 85
FRICTION_DEN   == 100

SOLID_TILES == {"#", "B", "?", "P", "p", "T", "t", "="}

NoObj == [none |-> TRUE]

---------------------------------------------------------------------------
(* Tile grid: a sequence of rows, each a sequence of glyphs.  JavaScript   *)
(* indexes from 0, TLA+ sequences from 1.                                  *)

getTileFloorBelow(g, col, row) ==
    IF row < 0 THEN "."
    ELSE IF row >= Len(g) THEN "#"
    ELSE IF col < 0 \/ col >= Len(g[1]) THEN "."
    ELSE IF col >= Len(g[row + 1]) THEN "undefined"
    ELSE g[row + 1][col + 1]

getTile(g, col, row) ==
    IF row < 0 \/ row >= Len(g) THEN "."
    ELSE IF col < 0 \/ col >= Len(g[1]) THEN "."
    ELSE IF col >= Len(g[row + 1]) THEN "undefined"
    ELSE g[row + 1][col + 1]

isSolid(g, col, row) == getTile(g, col, row) \in SOLID_TILES

(* A PhysicsEngine whose levelData may be null: [hasLevel, levelData].     *)
PhysicsEngine(hasLevel, levelData) ==
    [hasLevel |-> hasLevel, levelData |-> levelData]

engineGetTile(engine, col, row) ==
    IF ~engine.hasLevel THEN "." ELSE getTile(engine.levelData, col, row)

engineIsSolid(engine, col, row) ==
    engineGetTile(engine, col, row) \in SOLID_TILES

---------------------------------------------------------------------------
(* AABB                                                                    *)

AABB(x, y, w, h) == [x |-> x, y |-> y, w |-> w, h |-> h]

intersectsInclusive(a, b) ==
    /\ a.x <= b.x + b.w
    /\ a.x + a.w >= b.x
    /\ a.y <= b.y + b.h
    /\ a.y + a.h >= b.y

intersectsOneSided(a, b) ==
    /\ a.x < b.x + b.w
    /\ a.x + a.w >= b.x
    /\ a.y < b.y + b.h
    /\ a.y + a.h >= b.y

intersects(a, b) ==
    /\ a.x < b.x + b.w
    /\ a.x + a.w > b.x
    /\ a.y < b.y + b.h
    /\ a.y + a.h > b.y

BoxOf(e) == AABB(e.x, e.y, e.w, e.h)

TileBox(col, row) == AABB(col * TILE_SIZE, row * TILE_SIZE, TILE_SIZE, TILE_SIZE)

checkEntityCollision(a, b) == intersects(BoxOf(a), BoxOf(b))

---------------------------------------------------------------------------
(* PhysicsEngine                                                           *)

applyGravityNoCap(e) == [e EXCEPT !.vy = @ + GRAVITY]

applyGravity(e) ==
    LET v == e.vy + GRAVITY
    IN  [e EXCEPT !.vy = IF v > MAX_FALL_SPEED THEN MAX_FALL_SPEED ELSE v]

(* The body of the double loop of _resolveAxis for one tile (col,row).     *)
(* s = [e |-> the entity, hits |-> the (col,row) pairs onHeadHit was       *)
(* called with so far].  cb says whether the entity has an onHeadHit.      *)
XBranchKeepVelocity(e, tileBox) ==
    [e EXCEPT !.x  = IF e.vx > 0 THEN tileBox.x - e.w
                     ELSE IF e.vx < 0 THEN tileBox.x + TILE_SIZE
                     ELSE e.x]

XBranch(e, tileBox) ==
    [e EXCEPT !.x  = IF e.vx > 0 THEN tileBox.x - e.w
                     ELSE IF e.vx < 0 THEN tileBox.x + TILE_SIZE
                     ELSE e.x,
              !.vx = 0]

YBranchNoLanding(s, tileBox, col, row, cb) ==
    LET e == s.e
    IN  IF e.vy > 0
        THEN [s EXCEPT !.e = [e EXCEPT !.y = tileBox.y - e.h, !.vy = 0]]
        ELSE IF e.vy < 0
        THEN [e    |-> [e EXCEPT !.y = tileBox.y + TILE_SIZE,
                                 !.onGround = FALSE, !.vy = 0],
              hits |-> IF cb THEN Append(s.hits, <<col, row>>) ELSE s.hits]
        ELSE [s EXCEPT !.e = [e EXCEPT !.vy = 0]]

YBranchHitOnLanding(s, tileBox, col, row, cb) ==
    LET e == s.e
    IN  IF e.vy > 0
        THEN [e    |-> [e EXCEPT !.y = tileBox.y - e.h,
                                 !.onGround = TRUE, !.vy = 0],
              hits |-> IF cb THEN Append(s.hits, <<col, row>>) ELSE s.hits]
        ELSE IF e.vy < 0
        THEN [e    |-> [e EXCEPT !.y = tileBox.y + TILE_SIZE,
                                 !.onGround = FALSE, !.vy = 0],
              hits |-> IF cb THEN Append(s.hits, <<col, row>>) ELSE s.hits]
        ELSE [s EXCEPT !.e = [e EXCEPT !.vy = 0]]

YBranch(s, tileBox, col, row, cb) ==
    LET e == s.e
    IN  IF e.vy > 0
        THEN [s EXCEPT !.e = [e EXCEPT !.y = tileBox.y - e.h,
                                       !.onGround = TRUE, !.vy = 0]]
        ELSE IF e.vy < 0
        THEN [e    |-> [e EXCEPT !.y = tileBox.y + TILE_SIZE,
                                 !.onGround = FALSE, !.vy = 0],
              hits |-> IF cb THEN Append(s.hits, <<col, row>>) ELSE s.hits]
        ELSE [s EXCEPT !.e = [e EXCEPT !.vy = 0]]

TileStep(s, g, isX, col, row, cb) ==
    IF ~isSolid(g, col, row) THEN s
    ELSE LET tileBox == TileBox(col, row)
         IN  IF ~intersects(BoxOf(s.e), tileBox) THEN s
             ELSE IF isX THEN [s EXCEPT !.e = XBranch(s.e, tileBox)]
             ELSE YBranch(s, tileBox, col, row, cb)

(* for (row = startRow..endRow) for (col = startCol..endCol): row-major.   *)
RECURSIVE ScanTiles(_, _, _, _, _, _, _, _, _)
ScanTiles(s, g, isX, row, col, startCol, endCol, endRow, cb) ==
    IF row > endRow THEN s
    ELSE IF col > endCol
         THEN ScanTiles(s, g, isX, row + 1, startCol, startCol, endCol, endRow, cb)
         ELSE ScanTiles(TileStep(s, g, isX, col, row, cb),
                        g, isX, row, col + 1, startCol, endCol, endRow, cb)

(* _resolveAxis: move along the axis, then scan the tiles the moved box    *)
(* spans.  The scan range is computed once, before the loop.               *)
resolveAxis(s, g, isX, cb) ==
    LET e0 == s.e
        e1 == IF isX THEN [e0 EXCEPT !.x = @ + e0.vx]
                     ELSE [e0 EXCEPT !.y = @ + e0.vy]
        startCol == e1.x \div TILE_SIZE
        endCol   == (e1.x + e1.w - Unit) \div TILE_SIZE
        startRow == e1.y \div TILE_SIZE
        endRow   == (e1.y + e1.h - Unit) \div TILE_SIZE
    IN  ScanTiles([s EXCEPT !.e = e1], g, isX,
                  startRow, startCol, startCol, endCol, endRow, cb)

(* resolveCollisions.  Returns the entity, the entity as it was between    *)
(* the X pass and the Y pass, and the onHeadHit calls of each pass.        *)
resolveCollisionsKeepGround(e, g, cb) ==
    LET s0 == [e |-> e, hits |-> <<>>]
        s1 == resolveAxis(s0, g, TRUE, cb)
        s2 == resolveAxis([e |-> s1.e, hits |-> <<>>], g, FALSE, cb)
    IN  [e |-> s2.e, mid |-> s1.e, xhits |-> s1.hits, hits |-> s2.hits]

resolveCollisions(e, g, cb) ==
    LET s0 == [e |-> [e EXCEPT !.onGround = FALSE], hits |-> <<>>]
        s1 == resolveAxis(s0, g, TRUE, cb)
        s2 == resolveAxis([e |-> s1.e, hits |-> <<>>], g, FALSE, cb)
    IN  [e |-> s2.e, mid |-> s1.e, xhits |-> s1.hits, hits |-> s2.hits]

---------------------------------------------------------------------------
(* Player (player.js)                                                      *)

MOVE_SPEED == 3 * Unit
JUMP_FORCE == -10 * Unit
DEATH_HOP  == -8 * Unit
DEATH_GRAVITY == (4 * Unit) \div 10
RESPAWN_INVINCIBLE == 120
START_LIVES == 5

Abs(n) == IF n < 0 THEN -n ELSE n
Max(a, b) == IF a > b THEN a ELSE b
Min(a, b) == IF a < b THEN a ELSE b

(* v * FRICTION, rounded towards zero to 1/Unit px.                        *)
timesFriction(v) ==
    IF v >= 0 THEN (v * FRICTION_NUM) \div FRICTION_DEN
    ELSE -(((-v) * FRICTION_NUM) \div FRICTION_DEN)

NewPlayer(x, y) ==
    [x |-> x, y |-> y, w |-> 14 * Unit, h |-> 16 * Unit, vx |-> 0, vy |-> 0,
     onGround |-> FALSE, facing |-> 1, alive |-> TRUE, score |-> 0,
     coins |-> 0, lives |-> START_LIVES, invincibleTimer |-> 0,
     deathTimer |-> 0, finished |-> FALSE, starPower |-> FALSE,
     speedMultiplier |-> 1]

Inputs == [left : BOOLEAN, right : BOOLEAN, jump : BOOLEAN]

(* Player.update(input): [p |-> the player afterwards, sfx |-> the value   *)
(* returned ("jump", "null", or "undefined" for the bare returns)].        *)
PlayerMove(p, input) ==
    IF input.left
    THEN [p EXCEPT !.vx = -MOVE_SPEED * p.speedMultiplier, !.facing = -1]
    ELSE IF input.right
    THEN [p EXCEPT !.vx = MOVE_SPEED * p.speedMultiplier, !.facing = 1]
    ELSE LET v == timesFriction(p.vx)
         IN  [p EXCEPT !.vx = IF Abs(v) < Unit \div 10 THEN 0 ELSE v]

PlayerJumpAlways(p, input) ==
    IF input.jump
    THEN [p |-> [p EXCEPT !.vy = JUMP_FORCE, !.onGround = FALSE], sfx |-> "jump"]
    ELSE [p |-> p, sfx |-> "null"]

PlayerJump(p, input) ==
    IF input.jump /\ p.onGround
    THEN [p |-> [p EXCEPT !.vy = JUMP_FORCE, !.onGround = FALSE], sfx |-> "jump"]
    ELSE [p |-> p, sfx |-> "null"]

PlayerUpdate(p, input) ==
    IF ~p.alive
    THEN [p |-> [p EXCEPT !.deathTimer = @ + 1,
                          !.vy = p.vy + DEATH_GRAVITY,
                          !.y  = p.y + p.vy + DEATH_GRAVITY],
          sfx |-> "undefined"]
    ELSE IF p.finished THEN [p |-> p, sfx |-> "undefined"]
    ELSE LET p1 == [p EXCEPT !.invincibleTimer = IF @ > 0 THEN @ - 1 ELSE @]
         IN  PlayerJump(PlayerMove(p1, input), input)

(* Player.die(): [p, ret].                                                 *)
PlayerDieIgnoreStar(p) ==
    IF p.invincibleTimer > 0 THEN [p |-> p, ret |-> FALSE]
    ELSE [p |-> [p EXCEPT !.alive = FALSE, !.vy = DEATH_HOP, !.vx = 0,
                          !.lives = @ - 1],
          ret |-> TRUE]

PlayerDie(p) ==
    IF p.invincibleTimer > 0 \/ p.starPower THEN [p |-> p, ret |-> FALSE]
    ELSE [p |-> [p EXCEPT !.alive = FALSE, !.vy = DEATH_HOP, !.vx = 0,
                          !.lives = @ - 1],
          ret |-> TRUE]

PlayerRespawnNoInvincible(p, x, y) ==
    [p EXCEPT !.x = x, !.y = y, !.vx = 0, !.vy = 0, !.alive = TRUE,
              !.deathTimer = 0, !.finished = FALSE, !.starPower = FALSE]

PlayerRespawn(p, x, y) ==
    [p EXCEPT !.x = x, !.y = y, !.vx = 0, !.vy = 0, !.alive = TRUE,
              !.deathTimer = 0, !.invincibleTimer = RESPAWN_INVINCIBLE,
              !.finished = FALSE, !.starPower = FALSE]

addScore(p, points) == [p EXCEPT !.score = @ + points]

addCoin(p) == [p EXCEPT !.coins = @ + 1, !.score = @ + 100]

---------------------------------------------------------------------------
(* AIPlayer (ai-player.js)                                                 *)

AI_BASE_SPEED          == (25 * Unit) \div 10
AI_JUMP_FORCE          == -10 * Unit
AI_BASE_LOOK_AHEAD     == 6
AI_BASE_REACTION_DELAY == 8

NewAIPlayer(x, y) ==
    [x |-> x, y |-> y, w |-> 14 * Unit, h |-> 16 * Unit, vx |-> 0, vy |-> 0,
     onGround |-> FALSE, facing |-> 1, alive |-> TRUE, score |-> 0,
     coins |-> 0, finished |-> FALSE, frameCount |-> 0, deathTimer |-> 0,
     approachSpeed |-> 0, moveSpeed |-> AI_BASE_SPEED,
     lookAhead |-> AI_BASE_LOOK_AHEAD,
     reactionDelay |-> AI_BASE_REACTION_DELAY, difficultyLevel |-> 0]

DifficultyProfileNoCap(levelIndex) ==
    [moveSpeed     |-> AI_BASE_SPEED + levelIndex * ((15 * Unit) \div 100),
     lookAhead     |-> AI_BASE_LOOK_AHEAD + (levelIndex * 4) \div 10,
     reactionDelay |-> AI_BASE_REACTION_DELAY - levelIndex \div 2]

(* The difficulty profile of a level index.                                *)
DifficultyProfile(levelIndex) ==
    [moveSpeed     |-> Min((45 * Unit) \div 10,
                           AI_BASE_SPEED + levelIndex * ((15 * Unit) \div 100)),
     lookAhead     |-> Min(10, AI_BASE_LOOK_AHEAD + (levelIndex * 4) \div 10),
     reactionDelay |-> Max(3, AI_BASE_REACTION_DELAY - levelIndex \div 2)]

setDifficulty(a, levelIndex) ==
    LET d == DifficultyProfile(levelIndex)
    IN  [a EXCEPT !.difficultyLevel = levelIndex,
                  !.moveSpeed = d.moveSpeed,
                  !.lookAhead = d.lookAhead,
                  !.reactionDelay = d.reactionDelay]

(* levelData[r][c] for 0 <= r < rows: undefined past the end of the row.   *)
Cell(g, r, c) == IF c < Len(g[r + 1]) THEN g[r + 1][c + 1] ELSE "undefined"

(* _isGapAhead: "true", "false", or "throw" when levelData[r] is read for  *)
(* a negative r (undefined[checkCol] is a TypeError).                      *)
RECURSIVE GapScan(_, _, _, _, _)
GapScan(g, col, row, i, lookAhead) ==
    IF i > lookAhead THEN "false"
    ELSE LET checkCol == col + i
         IN  IF checkCol >= 0 /\ row < Len(g) /\ checkCol < Len(g[1])
             THEN IF row < 0 THEN "throw"
                  ELSE IF \E r \in row .. (Min(row + 3, Len(g)) - 1) :
                             Cell(g, r, checkCol) \in SOLID_TILES
                       THEN GapScan(g, col, row, i + 1, lookAhead)
                       ELSE "true"
             ELSE GapScan(g, col, row, i + 1, lookAhead)

isGapAhead(g, col, row, lookAhead) == GapScan(g, col, row, 1, lookAhead)

isEdgeBelow(g, col, row) ==
    LET checkCol == col + 1
    IN  IF checkCol < 0 \/ row >= Len(g) \/ checkCol >= Len(g[1]) THEN "false"
        ELSE IF row < 0 THEN "throw"
        ELSE IF Cell(g, row, checkCol) \notin SOLID_TILES
                /\ (row + 1 >= Len(g)
                    \/ Cell(g, row + 1, checkCol) \notin SOLID_TILES)
             THEN "true"
             ELSE "false"

isWallAhead(g, col, row, facing) ==
    LET checkCol == col + facing
        checkRow == row - 1
    IN  IF checkRow >= 0 /\ checkCol >= 0 /\ checkRow < Len(g)
           /\ checkCol < Len(g[1])
        THEN Cell(g, checkRow, checkCol) \in SOLID_TILES
        ELSE FALSE

(* _findNearestEnemy / _findNearestCoin: the first entity of the list at   *)
(* the least distance below the cut-off, or NoObj (null).                  *)
RECURSIVE NearestScan(_, _, _, _, _, _)
NearestScan(entities, wanted, dist, i, minDist, nearest) ==
    IF i > Len(entities) THEN nearest
    ELSE IF wanted[i] /\ dist[i] < minDist
         THEN NearestScan(entities, wanted, dist, i + 1, dist[i], entities[i])
         ELSE NearestScan(entities, wanted, dist, i + 1, minDist, nearest)

findNearestEnemy(a, entities) ==
    LET wanted == [i \in 1 .. Len(entities) |->
                     entities[i].type = "enemy" /\ entities[i].alive]
        dist   == [i \in 1 .. Len(entities) |-> Abs(entities[i].x - a.x)]
    IN  NearestScan(entities, wanted, dist, 1, 100 * Unit, NoObj)

findNearestCoin(a, entities) ==
    LET wanted == [i \in 1 .. Len(entities) |->
                     entities[i].type = "coin" /\ ~entities[i].collected]
        dist   == [i \in 1 .. Len(entities) |->
                     Abs(entities[i].x - a.x) + Abs(entities[i].y - a.y)]
    IN  NearestScan(entities, wanted, dist, 1, 80 * Unit, NoObj)

(* Math.max(0.8, dx / 40), dx / 40 rounded down to 1/Unit px.              *)
approachSpeedFor(dx) == Max((8 * Unit) \div 10, dx \div 40)

(* _decide, called with frameCount already incremented.  rnd is the        *)
(* outcome of Math.random() < 0.01.  Returns the intent, the new           *)
(* _approachSpeed and facing, and whether a TypeError was thrown.          *)
AIDecide(a, g, entities, rnd) ==
    LET col  == (a.x + a.w \div 2) \div TILE_SIZE
        row  == (a.y + a.h) \div TILE_SIZE
        gap  == isGapAhead(g, col, row, a.lookAhead)
        edge == IF gap # "throw" /\ a.onGround
                THEN isEdgeBelow(g, col, row) ELSE "false"
        wall == isWallAhead(g, col, row, a.facing)
        in0  == [left |-> FALSE, right |-> TRUE,
                 jump |-> gap = "true" \/ edge = "true" \/ wall]
        window == a.frameCount % a.reactionDelay >= 2
        ne   == findNearestEnemy(a, entities)
        edx  == IF ne = NoObj THEN 0 ELSE ne.x - a.x
        slow == ne # NoObj /\ edx > 0 /\ edx < 80 * Unit
        stomp == ne # NoObj /\ edx > 0 /\ edx < 35 * Unit /\ a.onGround
        evade == ne # NoObj /\ edx < 0 /\ edx > -25 * Unit
        in1  == [left  |-> in0.left,
                 right |-> IF stomp \/ evade THEN TRUE
                           ELSE IF slow THEN FALSE ELSE in0.right,
                 jump  |-> in0.jump \/ stomp \/ evade]
        ap1  == IF ne = NoObj THEN 0
                ELSE IF slow THEN approachSpeedFor(edx) ELSE a.approachSpeed
        nc   == findNearestCoin(a, entities)
        cdx  == IF nc = NoObj THEN 0 ELSE nc.x - a.x
        cdy  == IF nc = NoObj THEN 0 ELSE nc.y - a.y
        above  == nc # NoObj /\ cdy < -20 * Unit /\ Abs(cdx) < 40 * Unit
                  /\ a.onGround
        behind == nc # NoObj /\ cdx < -10 * Unit /\ Abs(cdy) < 30 * Unit
        in2  == [left  |-> in1.left \/ behind,
                 right |-> in1.right /\ ~behind,
                 jump  |-> in1.jump \/ above \/ (rnd /\ a.onGround)]
    IN  IF gap = "throw" \/ edge = "throw"
        THEN [input |-> in0, approachSpeed |-> a.approachSpeed,
              facing |-> a.facing, fault |-> TRUE]
        ELSE IF window
        THEN [input |-> in2, approachSpeed |-> ap1,
              facing |-> IF behind THEN -1 ELSE a.facing, fault |-> FALSE]
        ELSE [input |-> in0, approachSpeed |-> a.approachSpeed,
              facing |-> a.facing, fault |-> FALSE]

AIJumpAlways(a, input) ==
    IF input.jump
    THEN [a |-> [a EXCEPT !.vy = AI_JUMP_FORCE, !.onGround = FALSE], sfx |-> "jump"]
    ELSE [a |-> a, sfx |-> "null"]

AIJump(a, input) ==
    IF input.jump /\ a.onGround
    THEN [a |-> [a EXCEPT !.vy = AI_JUMP_FORCE, !.onGround = FALSE], sfx |-> "jump"]
    ELSE [a |-> a, sfx |-> "null"]

(* AIMove without the controlled-approach branch: the agent coasts under   *)
(* friction when neither direction is pressed.                             *)
AIMoveNoApproach(a, input) ==
    IF input.left THEN [a EXCEPT !.vx = -a.moveSpeed, !.facing = -1]
    ELSE IF input.right THEN [a EXCEPT !.vx = a.moveSpeed, !.facing = 1]
    ELSE [a EXCEPT !.vx = timesFriction(a.vx)]

AIMove(a, input) ==
    IF input.left THEN [a EXCEPT !.vx = -a.moveSpeed, !.facing = -1]
    ELSE IF input.right THEN [a EXCEPT !.vx = a.moveSpeed, !.facing = 1]
    ELSE IF a.approachSpeed > 0
    THEN [a EXCEPT !.vx = a.approachSpeed, !.facing = 1]
    ELSE [a EXCEPT !.vx = timesFriction(a.vx)]

(* AIPlayer.update(levelData, entities): [a, sfx, input, fault].  A        *)
(* TypeError thrown by _decide leaves the object as it is at the throw     *)
(* (frameCount already incremented).                                       *)
NoInput == [left |-> FALSE, right |-> FALSE, jump |-> FALSE]

AIUpdate(a, g, entities, rnd) ==
    LET acted(j, d) ==
            [a |-> j.a, sfx |-> j.sfx, input |-> d.input, fault |-> FALSE,
             decided |-> TRUE]
        decided(a1, d) ==
            IF d.fault
            THEN [a |-> a1, sfx |-> "TypeError", input |-> NoInput,
                  fault |-> TRUE, decided |-> FALSE]
            ELSE acted(AIJump(AIMove([a1 EXCEPT !.approachSpeed = d.approachSpeed,
                                                !.facing = d.facing],
                                     d.input),
                              d.input),
                       d)
        frame(a1) == decided(a1, AIDecide(a1, g, entities, rnd))
    IN  IF ~a.alive
        THEN [a |-> [a EXCEPT !.deathTimer = @ + 1,
                              !.vy = a.vy + DEATH_GRAVITY,
                              !.y  = a.y + a.vy + DEATH_GRAVITY],
              sfx |-> "null", input |-> NoInput, fault |-> FALSE,
              decided |-> FALSE]
        ELSE IF a.finished
        THEN [a |-> a, sfx |-> "null", input |-> NoInput, fault |-> FALSE,
              decided |-> FALSE]
        ELSE frame([a EXCEPT !.frameCount = @ + 1])

AIDie(a) == [a EXCEPT !.alive = FALSE, !.vy = DEATH_HOP, !.vx = 0]

AIRespawn(a, x, y) ==
    [a EXCEPT !.x = x, !.y = y, !.vx = 0, !.vy = 0, !.alive = TRUE,
              !.deathTimer = 0, !.finished = FALSE]

---------------------------------------------------------------------------
(* Entities (entities.js)                                                  *)

ENEMY_PATROL_RANGE == 80 * Unit

NewEnemy(x, y) ==
    [type |-> "enemy", x |-> x, y |-> y, w |-> 14 * Unit, h |-> 14 * Unit,
     vx |-> -Unit, vy |-> 0, startX |-> x, alive |-> TRUE,
     onGround |-> FALSE, squishTimer |-> 0, patrolRange |-> ENEMY_PATROL_RANGE]

(* Enemy.update reversing at the patrol range instead of past it.          *)
EnemyUpdateAtRange(e) ==
    IF ~e.alive THEN [e EXCEPT !.squishTimer = @ + 1]
    ELSE LET x1 == e.x + e.vx
         IN  [e EXCEPT !.x = x1,
                       !.vx = IF Abs(x1 - e.startX) >= e.patrolRange
                              THEN -e.vx ELSE e.vx]

EnemyUpdate(e) ==
    IF ~e.alive THEN [e EXCEPT !.squishTimer = @ + 1]
    ELSE LET x1 == e.x + e.vx
         IN  [e EXCEPT !.x = x1,
                       !.vx = IF Abs(x1 - e.startX) > e.patrolRange
                              THEN -e.vx ELSE e.vx]

EnemyStomp(e) == [e EXCEPT !.alive = FALSE, !.squishTimer = 0, !.h = 8 * Unit]

NewCoin(x, y) ==
    [type |-> "coin", x |-> x, y |-> y, w |-> 12 * Unit, h |-> 14 * Unit,
     collected |-> FALSE]

NewFlag(x, y) ==
    [type |-> "flag", x |-> x, y |-> y, w |-> 16 * Unit, h |-> 16 * Unit,
     reached |-> FALSE]

(* Mushroom and StarPowerup differ in type and horizontal speed only.      *)
NewPowerup(type, x, y) ==
    [type |-> type, x |-> x, y |-> y, w |-> 14 * Unit, h |-> 14 * Unit,
     vx |-> IF type = "mushroom" THEN (15 * Unit) \div 10 ELSE 2 * Unit,
     vy |-> 0, onGround |-> FALSE, active |-> TRUE, collected |-> FALSE,
     spawnTimer |-> 0, spawnY |-> y]

PowerupUpdate(m) ==
    IF ~m.active \/ m.collected THEN m
    ELSE LET t == m.spawnTimer + 1
         IN  IF t < 16
             THEN [m EXCEPT !.spawnTimer = t, !.y = m.spawnY - t * Unit]
             ELSE [m EXCEPT !.spawnTimer = t, !.x = m.x + m.vx]

PowerupCollect(m) == [m EXCEPT !.collected = TRUE, !.active = FALSE]

---------------------------------------------------------------------------
(* Levels (levels.js).  parseLevel turns a map of glyph rows into the tile *)
(* grid, the entity list and the two start positions.  The level table of  *)
(* the game (14 x 80 maps, then generated ones) is data; the model plays   *)
(* on the small maps of LevelMaps, which use the same legend and the same  *)
(* 14-row layout (ground in rows 12 and 13), and repeats them cyclically   *)
(* as the level index grows (the game's level sequence never ends).        *)

LevelMaps ==
    << [time |-> 400,
        map  |-> << <<".", ".", ".", ".", ".", ".">>,
                    <<".", ".", ".", ".", ".", ".">>,
                    <<".", ".", ".", ".", ".", ".">>,
                    <<".", ".", ".", ".", ".", ".">>,
                    <<".", ".", ".", ".", ".", ".">>,
                    <<".", ".", ".", ".", ".", ".">>,
                    <<".", ".", ".", ".", ".", ".">>,
                    <<".", ".", ".", ".", ".", ".">>,
                    <<".", ".", ".", ".", ".", ".">>,
                    <<".", ".", ".", ".", ".", ".">>,
                    <<".", ".", ".", "?", ".", ".">>,
                    <<"2", "F", "1", "C", ".", "E">>,
                    <<"#", "#", "#", "#", "#", "#">>,
                    <<"#", "#", "#", "#", "#", "#">> >>],
       [time |-> 350,
        map  |-> << <<".", ".", ".", ".", ".", ".">>,
                    <<".", ".", ".", ".", ".", ".">>,
                    <<".", ".", ".", ".", ".", ".">>,
                    <<".", ".", ".", ".", ".", ".">>,
                    <<".", ".", ".", ".", ".", ".">>,
                    <<".", ".", ".", ".", ".", ".">>,
                    <<".", ".", ".", ".", ".", ".">>,
                    <<".", ".", ".", ".", ".", ".">>,
                    <<".", ".", ".", ".", ".", ".">>,
                    <<".", ".", ".", ".", ".", ".">>,
                    <<".", "B", ".", ".", ".", ".">>,
                    <<"F", "1", "E", ".", "2", ".">>,
                    <<"#", "#", "#", "#", "#", ".">>,
                    <<"#", "#", "#", "#", "#", ".">> >>],
       [time |-> 300,
        map  |-> << <<".", ".", ".", ".", ".", ".">>,
                    <<".", ".", ".", ".", ".", ".">>,
                    <<".", ".", ".", ".", ".", ".">>,
                    <<".", ".", ".", ".", ".", ".">>,
                    <<".", ".", ".", ".", ".", ".">>,
                    <<".", ".", ".", ".", ".", ".">>,
                    <<".", ".", ".", ".", ".", ".">>,
                    <<".", ".", ".", ".", ".", ".">>,
                    <<".", ".", ".", ".", ".", ".">>,
                    <<".", ".", ".", ".", ".", ".">>,
                    <<".", "1", ".", ".", ".", ".">>,
                    <<"F", "E", ".", "2", "C", ".">>,
                    <<"#", "#", "#", "#", "#", "#">>,
                    <<"#", "#", "#", "#", "#", "#">> >>] >>

LevelSource(levelIndex) == LevelMaps[(levelIndex % Len(LevelMaps)) + 1]

(* map[r][c] || '.': a cell past the end of a short row reads as '.'.      *)
GlyphAt(map, r, c) ==
    IF c + 1 <= Len(map[r + 1]) THEN map[r + 1][c + 1] ELSE "."

RECURSIVE MaxRowLen(_, _)
MaxRowLen(map, r) ==
    IF r > Len(map) THEN 0 ELSE Max(Len(map[r]), MaxRowLen(map, r + 1))

(* The entities of a map in row-major order: ks are the cells k = r * cols *)
(* + c still to visit, the smallest first.                                 *)
EntityCells(map, cols) ==
    { k \in 0 .. (Len(map) * cols - 1) :
        GlyphAt(map, k \div cols, k % cols) \in {"E", "C", "F"} }

RECURSIVE ParseEntities(_, _, _)
ParseEntities(map, cols, ks) ==
    IF ks = {} THEN <<>>
    ELSE LET k  == CHOOSE m \in ks : \A n \in ks : m <= n
             ch == GlyphAt(map, k \div cols, k % cols)
             x  == (k % cols) * 16 * Unit
             y  == (k \div cols) * 16 * Unit
             e  == IF ch = "E" THEN [type |-> "enemy", x |-> x, y |-> y + 2 * Unit]
                   ELSE IF ch = "C" THEN [type |-> "coin", x |-> x, y |-> y]
                   ELSE [type |-> "flag", x |-> x, y |-> y]
         IN  <<e>> \o ParseEntities(map, cols, ks \ {k})

(* The position of the last cell holding glyph ch, or the default.         *)
StartOf(map, cols, ch, default) ==
    LET ks == { k \in 0 .. (Len(map) * cols - 1) :
                  GlyphAt(map, k \div cols, k % cols) = ch }
    IN  IF ks = {} THEN default
        ELSE LET k == CHOOSE m \in ks : \A n \in ks : n <= m
             IN  [x |-> (k % cols) * 16 * Unit, y |-> (k \div cols) * 16 * Unit]

parseLevel(levelIndex) ==
    LET level == LevelSource(levelIndex)
        map   == level.map
        rows  == Len(map)
        cols  == MaxRowLen(map, 1)
    IN  [time  |-> level.time,
         tiles |-> [r \in 1 .. rows |->
                      [c \in 1 .. cols |->
                         IF GlyphAt(map, r - 1, c - 1) \in {"E", "C", "F", "1", "2"}
                         THEN "." ELSE GlyphAt(map, r - 1, c - 1)]],
         entities |-> ParseEntities(map, cols, EntityCells(map, cols)),
         playerStart |-> StartOf(map, cols, "1", [x |-> 16 * Unit, y |-> 160 * Unit]),
         aiStart |-> StartOf(map, cols, "2", [x |-> 32 * Unit, y |-> 160 * Unit]),
         rows |-> rows, cols |-> cols,
         width |-> cols * 16 * Unit, height |-> rows * 16 * Unit]

(* getLevelCount() is Infinity: n < getLevelCount() for every n.           *)
belowLevelCount(n) == TRUE

Infinity == "Infinity"

getLevelCount == Infinity

---------------------------------------------------------------------------
(* Game (game.js).  A world W is [g, t, p, a]: the Game object's own       *)
(* fields, level.tiles, the player and the AI player (NoObj when           *)
(* this.aiPlayer is null).  setTimeout callbacks waiting to run are        *)
(* counted in g.timeouts.                                                  *)

CANVAS_WIDTH == 400 * Unit
CANVAS_HEIGHT == 224 * Unit
READY_TICKS == 90
STAR_TICKS == 600
COMBO_TICKS == 120

NewCamera == [x |-> 0, y |-> 0]

(* What a tick leaves behind for observation: the parts of _update in the  *)
(* order they ran, the grid as the player's part left it, and the grid     *)
(* handed to aiPlayer.update.                                              *)
NoTick == [order |-> <<>>, playerTiles |-> <<>>, aiTiles |-> <<>>]

(* new Camera(width, height, worldWidth, worldHeight).                     *)
Camera(width, height, worldWidth, worldHeight) ==
    [x |-> 0, y |-> 0, width |-> width, height |-> height,
     worldWidth |-> worldWidth, worldHeight |-> worldHeight]

(* Camera.follow without the two clamping statements.                      *)
followNoClamp(camera, target) ==
    [camera EXCEPT !.x = target.x - camera.width \div 3,
                   !.y = target.y - camera.height \div 2]

(* Camera.follow; width / 3 is rounded down to the model's resolution.     *)
follow(camera, target) ==
    [camera EXCEPT
        !.x = Max(0, Min(target.x - camera.width \div 3,
                         camera.worldWidth - camera.width)),
        !.y = Max(0, Min(target.y - camera.height \div 2,
                         camera.worldHeight - camera.height))]

(* The game's camera, of the canvas size, following a target.              *)
cameraFollow(target, worldWidth, worldHeight) ==
    LET c == follow(Camera(CANVAS_WIDTH, CANVAS_HEIGHT, worldWidth, worldHeight),
                    target)
    IN  [x |-> c.x, y |-> c.y]

NewGame(aiMode, timeAttack) ==
    [aiMode |-> aiMode, timeAttack |-> timeAttack, state |-> "READY",
     currentLevel |-> 0, level |-> NoObj, camera |-> NewCamera,
     enemies |-> <<>>, coins |-> <<>>, flags |-> <<>>, mushrooms |-> <<>>,
     stars |-> <<>>, timer |-> 0, readyTimer |-> READY_TICKS,
     deathCount |-> 0, stompCount |-> 0, blockHitCount |-> 0,
     starTimer |-> 0, comboCount |-> 0, comboTimer |-> 0,
     comboMultiplier |-> 1, timeouts |-> 0]

EntitiesOfType(entities, type) == SelectSeq(entities, LAMBDA e : e.type = type)

loadLevel(W, index) ==
    LET enemy(e) == NewEnemy(e.x, e.y)
        coin(e)  == NewCoin(e.x, e.y)
        flag(e)  == NewFlag(e.x, e.y)
        built(data, es, cs, fs) ==
            [g |-> [W.g EXCEPT
                      !.currentLevel = index,
                      !.level = [playerStart |-> data.playerStart,
                                 aiStart |-> data.aiStart,
                                 width |-> data.width, height |-> data.height],
                      !.camera = NewCamera,
                      !.enemies = [i \in 1 .. Len(es) |-> enemy(es[i])],
                      !.coins = [i \in 1 .. Len(cs) |-> coin(cs[i])],
                      !.flags = [i \in 1 .. Len(fs) |-> flag(fs[i])],
                      !.mushrooms = <<>>,
                      !.stars = <<>>,
                      !.timer = IF W.g.timeAttack THEN 90 * 60
                                ELSE data.time * 60],
             t |-> data.tiles,
             p |-> NewPlayer(data.playerStart.x, data.playerStart.y),
             a |-> IF W.g.aiMode
                   THEN NewAIPlayer(data.aiStart.x, data.aiStart.y)
                   ELSE NoObj,
             coinLog |-> <<>>, tick |-> NoTick]
        sorted(data) ==
            built(data, EntitiesOfType(data.entities, "enemy"),
                  EntitiesOfType(data.entities, "coin"),
                  EntitiesOfType(data.entities, "flag"))
    IN  sorted(parseLevel(index))

(* start(): the world after construction and the first level load.         *)
startGame(aiMode, timeAttack) ==
    LET W == loadLevel([g |-> NewGame(aiMode, timeAttack), t |-> <<>>,
                        p |-> NoObj, a |-> NoObj], 0)
    IN  [W EXCEPT !.g.state = "READY", !.g.readyTimer = READY_TICKS]

nextLevel(W) ==
    LET L == loadLevel(W, W.g.currentLevel + 1)
    IN  [L EXCEPT !.p.score = W.p.score, !.p.coins = W.p.coins,
                  !.p.lives = W.p.lives,
                  !.g.state = "READY", !.g.readyTimer = READY_TICKS,
                  !.g.starTimer = 0]

restart(W) ==
    LET L == loadLevel(W, 0)
    IN  [L EXCEPT !.g.state = "READY", !.g.readyTimer = READY_TICKS,
                  !.g.blockHitCount = 0, !.g.starTimer = 0]

(* _onBlockHit leaving the '?' block as it is after paying out.            *)
onBlockHitKeepBlock(W, col, row, hitter) ==
    LET tile  == W.t[row + 1][col + 1]
        count == W.g.blockHitCount + 1
        reward(h) == addCoin(addScore(h, 50))
    IN  IF tile = "?"
        THEN IF hitter = "player"
             THEN [W EXCEPT !.g.blockHitCount = count, !.p = reward(@)]
             ELSE [W EXCEPT !.g.blockHitCount = count, !.a = reward(@)]
        ELSE IF tile = "B"
        THEN [W EXCEPT !.t[row + 1][col + 1] = "."]
        ELSE W

(* _onBlockHit(col, row, hitter), hitter being "player" or "ai".           *)
onBlockHit(W, col, row, hitter) ==
    LET tile  == W.t[row + 1][col + 1]
        count == W.g.blockHitCount + 1
        x     == col * TILE_SIZE
        y     == row * TILE_SIZE
        reward(h) == addCoin(addScore(h, 50))
    IN  IF tile = "?"
        THEN LET W1 == [W EXCEPT !.t[row + 1][col + 1] = "=",
                                 !.g.blockHitCount = count]
             IN  IF hitter = "player" /\ count % 7 = 0
                 THEN [W1 EXCEPT !.g.stars = Append(@, NewPowerup("star", x, y))]
                 ELSE IF hitter = "player" /\ count % 4 = 0
                 THEN [W1 EXCEPT !.g.mushrooms =
                                    Append(@, NewPowerup("mushroom", x, y))]
                 ELSE IF hitter = "player"
                 THEN [W1 EXCEPT !.p = reward(@)]
                 ELSE [W1 EXCEPT !.a = reward(@)]
        ELSE IF tile = "B"
        THEN [W EXCEPT !.t[row + 1][col + 1] = "."]
        ELSE W

RECURSIVE ApplyHeadHits(_, _, _, _)
ApplyHeadHits(W, hits, i, hitter) ==
    IF i > Len(hits) THEN W
    ELSE ApplyHeadHits(onBlockHit(W, hits[i][1], hits[i][2], hitter),
                       hits, i + 1, hitter)

(* _addComboStomp                                                          *)
addComboStomp(W) ==
    LET count == W.g.comboCount + 1
        mult  == Min(count, 8)
    IN  [W EXCEPT !.g.comboCount = count, !.g.comboTimer = COMBO_TICKS,
                  !.g.comboMultiplier = mult,
                  !.p = addScore(@, 200 * mult),
                  !.g.stompCount = @ + 1]

(* _checkCollisions, one loop per operator, each loop in list order.       *)
stompEnemy(W, i) == [W EXCEPT !.g.enemies[i] = EnemyStomp(@)]

StompFromAbove(p, enemy) == p.vy > 0 /\ p.y + p.h - enemy.y < 14 * Unit

RECURSIVE PlayerVsEnemies(_, _)
PlayerVsEnemies(W, i) ==
    IF i > Len(W.g.enemies) THEN W
    ELSE LET enemy == W.g.enemies[i]
             d     == PlayerDie(W.p)
         IN  IF ~enemy.alive \/ ~checkEntityCollision(W.p, enemy)
             THEN PlayerVsEnemies(W, i + 1)
             ELSE IF W.p.starPower
             THEN PlayerVsEnemies(addComboStomp(stompEnemy(W, i)), i + 1)
             ELSE IF StompFromAbove(W.p, enemy)
             THEN PlayerVsEnemies(
                      addComboStomp([stompEnemy(W, i) EXCEPT !.p.vy = -7 * Unit]),
                      i + 1)
             ELSE IF d.ret
             THEN PlayerVsEnemies(
                      [W EXCEPT !.p = d.p, !.g.deathCount = @ + 1,
                                !.g.comboCount = 0, !.g.comboTimer = 0,
                                !.g.comboMultiplier = 1],
                      i + 1)
             ELSE PlayerVsEnemies(W, i + 1)

RECURSIVE AIVsEnemies(_, _)
AIVsEnemies(W, i) ==
    IF i > Len(W.g.enemies) THEN W
    ELSE LET enemy == W.g.enemies[i]
         IN  IF ~enemy.alive \/ ~checkEntityCollision(W.a, enemy)
             THEN AIVsEnemies(W, i + 1)
             ELSE IF StompFromAbove(W.a, enemy)
             THEN AIVsEnemies(
                      [stompEnemy(W, i) EXCEPT
                          !.a = addScore([@ EXCEPT !.vy = -7 * Unit], 200)],
                      i + 1)
             ELSE AIVsEnemies([W EXCEPT !.a = AIDie(@)], i + 1)

AILive(W) == W.a # NoObj /\ W.a.alive

(* One coin.collect() with its addCoin(), as the log of the tick keeps it:  *)
(* the coin's index, the collector, the coin's flag when collect() was     *)
(* called, and what addCoin() added to the collector.                      *)
Collection(i, by, was, old, new) ==
    [coin |-> i, by |-> by, was |-> was, coins |-> new.coins - old.coins,
     score |-> new.score - old.score]

(* The coin loop without its "if (coin.collected) continue".               *)
RECURSIVE CoinLoopNoSkip(_, _)
CoinLoopNoSkip(W, i) ==
    IF i > Len(W.g.coins) THEN W
    ELSE LET coin == W.g.coins[i]
             W1 == IF checkEntityCollision(W.p, coin)
                   THEN [W EXCEPT !.g.coins[i].collected = TRUE,
                                  !.p = addCoin(@),
                                  !.coinLog = Append(@,
                                      Collection(i, "player", coin.collected,
                                                 W.p, addCoin(W.p)))]
                   ELSE W
             W2 == IF AILive(W1) /\ ~W1.g.coins[i].collected
                      /\ checkEntityCollision(W1.a, coin)
                   THEN [W1 EXCEPT !.g.coins[i].collected = TRUE,
                                   !.a = addCoin(@),
                                   !.coinLog = Append(@,
                                       Collection(i, "ai",
                                                  W1.g.coins[i].collected,
                                                  W1.a, addCoin(W1.a)))]
                   ELSE W1
         IN  CoinLoopNoSkip(W2, i + 1)

(* The coin loop of _checkCollisions; coinLog is the list of the           *)
(* collections of this tick.                                               *)
RECURSIVE CoinLoop(_, _)
CoinLoop(W, i) ==
    IF i > Len(W.g.coins) THEN W
    ELSE LET coin == W.g.coins[i]
             W1 == IF checkEntityCollision(W.p, coin)
                   THEN [W EXCEPT !.g.coins[i].collected = TRUE,
                                  !.p = addCoin(@),
                                  !.coinLog = Append(@,
                                      Collection(i, "player", coin.collected,
                                                 W.p, addCoin(W.p)))]
                   ELSE W
             W2 == IF AILive(W1) /\ ~W1.g.coins[i].collected
                      /\ checkEntityCollision(W1.a, coin)
                   THEN [W1 EXCEPT !.g.coins[i].collected = TRUE,
                                   !.a = addCoin(@),
                                   !.coinLog = Append(@,
                                       Collection(i, "ai",
                                                  W1.g.coins[i].collected,
                                                  W1.a, addCoin(W1.a)))]
                   ELSE W1
         IN  IF coin.collected THEN CoinLoop(W, i + 1) ELSE CoinLoop(W2, i + 1)

PowerupTouchable(m) == m.active /\ ~m.collected /\ m.spawnTimer >= 16

RECURSIVE MushroomLoop(_, _)
MushroomLoop(W, i) ==
    IF i > Len(W.g.mushrooms) THEN W
    ELSE LET m == W.g.mushrooms[i]
         IN  IF PowerupTouchable(m) /\ checkEntityCollision(W.p, m)
             THEN MushroomLoop(
                      [W EXCEPT !.g.mushrooms[i] = PowerupCollect(@),
                                !.p = addScore([@ EXCEPT !.lives = @ + 1], 1000)],
                      i + 1)
             ELSE MushroomLoop(W, i + 1)

RECURSIVE StarLoop(_, _)
StarLoop(W, i) ==
    IF i > Len(W.g.stars) THEN W
    ELSE LET st == W.g.stars[i]
         IN  IF PowerupTouchable(st) /\ checkEntityCollision(W.p, st)
             THEN StarLoop(
                      [W EXCEPT !.g.stars[i] = PowerupCollect(@),
                                !.g.starTimer = STAR_TICKS,
                                !.p = addScore([@ EXCEPT !.starPower = TRUE], 2000)],
                      i + 1)
             ELSE StarLoop(W, i + 1)

GoalBonus(W) ==
    1000 + (W.g.timer \div 60) * (IF W.g.timeAttack THEN 100 ELSE 50)

RECURSIVE FlagLoop(_, _)
FlagLoop(W, i) ==
    IF i > Len(W.g.flags) THEN W
    ELSE LET flag == W.g.flags[i]
             W1 == IF checkEntityCollision(W.p, flag)
                   THEN [W EXCEPT !.g.flags[i].reached = TRUE,
                                  !.p = addScore([@ EXCEPT !.finished = TRUE],
                                                 GoalBonus(W)),
                                  !.g.timeouts = @ + 1]
                   ELSE W
             W2 == IF AILive(W1) /\ ~W1.g.flags[i].reached
                      /\ checkEntityCollision(W1.a, flag)
                   THEN [W1 EXCEPT !.a = addScore([@ EXCEPT !.finished = TRUE],
                                                  1000)]
                   ELSE W1
         IN  IF flag.reached THEN FlagLoop(W, i + 1) ELSE FlagLoop(W2, i + 1)

checkCollisions(W) ==
    IF ~W.p.alive THEN W
    ELSE LET W1 == PlayerVsEnemies(W, 1)
             W2 == IF AILive(W1) THEN AIVsEnemies(W1, 1) ELSE W1
         IN  FlagLoop(StarLoop(MushroomLoop(CoinLoop(W2, 1), 1), 1), 1)

(* The star countdown without the clearing of player.starPower at expiry.   *)
starDecayKeepPower(W) ==
    IF W.g.starTimer > 0
    THEN [W EXCEPT !.g.starTimer = @ - 1]
    ELSE W

(* _update, in the order of its statements.                                *)
starDecay(W) ==
    IF W.g.starTimer > 0
    THEN LET t == W.g.starTimer - 1
         IN  [W EXCEPT !.g.starTimer = t,
                       !.p = IF t <= 0 THEN [@ EXCEPT !.starPower = FALSE] ELSE @]
    ELSE W

comboDecay(W) ==
    IF W.g.comboTimer > 0
    THEN LET t == W.g.comboTimer - 1
         IN  IF t <= 0
             THEN [W EXCEPT !.g.comboTimer = t, !.g.comboCount = 0,
                            !.g.comboMultiplier = 1]
             ELSE [W EXCEPT !.g.comboTimer = t]
    ELSE W

timerStep(W) ==
    LET W1 == [W EXCEPT !.g.timer = @ - 1]
    IN  IF W1.g.timer <= 0 /\ W1.p.alive
        THEN [W1 EXCEPT !.p = PlayerDie(@).p]
        ELSE W1

FellOut(e, W) == e.y > W.g.level.height + 32 * Unit

playerStep(W, input) ==
    LET fall(V)  == IF FellOut(V.p, V) /\ V.p.alive
                    THEN [V EXCEPT !.p = PlayerDie(@).p] ELSE V
        clamp(V) == IF V.p.x < 0 THEN [V EXCEPT !.p.x = 0] ELSE V
        hit(r)   == ApplyHeadHits([W EXCEPT !.p = r.e], r.hits, 1, "player")
    IN  fall(clamp(hit(resolveCollisions(
            applyGravity(PlayerUpdate(W.p, input).p), W.t, TRUE))))

(* The AI player's part of the tick: [W, fault].  A fault is the exception *)
(* AIPlayer.update can throw; it ends the tick where it is thrown.         *)
aiStep(W, rnd) ==
    LET fall(V) == [W |-> IF FellOut(V.a, V) THEN [V EXCEPT !.a = AIDie(@)]
                          ELSE V,
                    fault |-> FALSE]
        hit(r)  == ApplyHeadHits([W EXCEPT !.a = r.e], r.hits, 1, "ai")
        live(u) == IF u.fault
                   THEN [W |-> [W EXCEPT !.a = u.a], fault |-> TRUE]
                   ELSE fall(hit(resolveCollisions(applyGravity(u.a), W.t, TRUE)))
        dead(u) == [W |-> [W EXCEPT !.a = IF u.deathTimer > 60
                                          THEN AIRespawn(u, W.g.level.aiStart.x,
                                                         W.g.level.aiStart.y)
                                          ELSE u],
                    fault |-> FALSE]
    IN  IF W.a = NoObj THEN [W |-> W, fault |-> FALSE]
        ELSE IF W.a.alive
        THEN live(AIUpdate(W.a, W.t, W.g.enemies \o W.g.coins, rnd))
        ELSE dead(AIUpdate(W.a, W.t, <<>>, rnd).a)

enemiesStep(W) ==
    [W EXCEPT !.g.enemies =
        [i \in 1 .. Len(@) |->
            resolveCollisions(applyGravity(EnemyUpdate(@[i])), W.t, FALSE).e]]

(* The pickup step applying gravity and resolution from the first tick.    *)
powerupStepNoWindow(m, t) ==
    LET u == PowerupUpdate(m)
    IN  IF u.active
        THEN resolveCollisions(applyGravity(u), t, FALSE).e
        ELSE u

powerupStep(m, t) ==
    LET u == PowerupUpdate(m)
    IN  IF u.spawnTimer >= 16 /\ u.active
        THEN resolveCollisions(applyGravity(u), t, FALSE).e
        ELSE u

powerupsStep(W) ==
    [W EXCEPT !.g.mushrooms = [i \in 1 .. Len(@) |-> powerupStep(@[i], W.t)],
              !.g.stars = [i \in 1 .. Len(@) |-> powerupStep(@[i], W.t)]]

(* The respawn / game-over block acting one tick early.                    *)
deathStepAt90(W) ==
    IF ~W.p.alive /\ W.p.deathTimer >= 90
    THEN IF W.p.lives > 0
         THEN [W EXCEPT
                 !.p = PlayerRespawn(@, W.g.level.playerStart.x,
                                     W.g.level.playerStart.y),
                 !.g.starTimer = 0,
                 !.a = IF @ = NoObj THEN @
                       ELSE AIRespawn(@, W.g.level.aiStart.x,
                                      W.g.level.aiStart.y)]
         ELSE [W EXCEPT !.g.state = "GAME_OVER"]
    ELSE W

(* The respawn / game-over block at the end of a played tick.              *)
deathStep(W) ==
    IF ~W.p.alive /\ W.p.deathTimer > 90
    THEN IF W.p.lives > 0
         THEN [W EXCEPT
                 !.p = PlayerRespawn(@, W.g.level.playerStart.x,
                                     W.g.level.playerStart.y),
                 !.g.starTimer = 0,
                 !.a = IF @ = NoObj THEN @
                       ELSE AIRespawn(@, W.g.level.aiStart.x,
                                      W.g.level.aiStart.y)]
         ELSE [W EXCEPT !.g.state = "GAME_OVER"]
    ELSE W

Respawns(W) == ~W.p.alive /\ W.p.deathTimer > 90 /\ W.p.lives > 0

GameInput(left, right, jump, pause, enter) ==
    [left |-> left, right |-> right, jump |-> jump, pause |-> pause,
     enter |-> enter]

(* A part of _update has run, or is about to run.                          *)
Ran(V, part) == [V EXCEPT !.tick.order = Append(@, part)]

(* The PLAYING part of _update with the AI's part ahead of the player's.   *)
playTickAiFirst(W, input, rnd) ==
    LET finish(V) == [W |-> deathStep(V), kind |-> "played",
                      respawned |-> Respawns(V)]
        camera(V) == Ran([V EXCEPT !.g.camera =
                             cameraFollow(V.p, V.g.level.width, V.g.level.height)],
                         "camera")
        playerPart(V) == Ran([V EXCEPT !.tick.playerTiles = V.t], "player")
        rest(A)   == IF A.fault
                     THEN [W |-> A.W, kind |-> "fault", respawned |-> FALSE]
                     ELSE finish(camera(Ran(checkCollisions(
                              Ran(powerupsStep(Ran(enemiesStep(
                                  playerPart(playerStep(A.W, input))),
                                  "enemies")), "pickups")), "collisions")))
        aiPart(V) == aiStep(IF V.a = NoObj THEN V
                            ELSE Ran([V EXCEPT !.tick.aiTiles = V.t], "ai"), rnd)
    IN  rest(aiPart(timerStep(W)))

(* The PLAYING part of _update, from the timer to the respawn block.       *)
playTick(W, input, rnd) ==
    LET finish(V) == [W |-> deathStep(V), kind |-> "played",
                      respawned |-> Respawns(V)]
        camera(V) == Ran([V EXCEPT !.g.camera =
                             cameraFollow(V.p, V.g.level.width, V.g.level.height)],
                         "camera")
        playerPart(V) == Ran([V EXCEPT !.tick.playerTiles = V.t], "player")
        rest(A)   == IF A.fault
                     THEN [W |-> A.W, kind |-> "fault", respawned |-> FALSE]
                     ELSE finish(camera(Ran(checkCollisions(
                              Ran(powerupsStep(Ran(enemiesStep(A.W),
                                  "enemies")), "pickups")), "collisions")))
        aiPart(V) == aiStep(IF V.a = NoObj THEN V
                            ELSE Ran([V EXCEPT !.tick.aiTiles = V.t], "ai"), rnd)
    IN  rest(aiPart(playerPart(playerStep(timerStep(W), input))))

(* _update: [W, kind, respawned]; kind names the branch that ran.          *)
update(W0, input, rnd) ==
    LET W == comboDecay(starDecay(W0))
        idle(V, kind) == [W |-> V, kind |-> kind, respawned |-> FALSE]
    IN  IF W.g.state = "READY"
        THEN LET t == W.g.readyTimer - 1
             IN  idle([W EXCEPT !.g.readyTimer = t,
                                !.g.state = IF t <= 0 THEN "PLAYING" ELSE @],
                      "ready")
        ELSE IF W.g.state = "PAUSED"
        THEN idle(IF input.pause THEN [W EXCEPT !.g.state = "PLAYING"] ELSE W,
                  "paused")
        ELSE IF W.g.state \in {"LEVEL_COMPLETE", "GAME_OVER", "WIN"}
        THEN IF ~input.enter THEN idle(W, "over")
             ELSE IF W.g.state = "LEVEL_COMPLETE"
             THEN idle(nextLevel(W), "load")
             ELSE idle(restart(W), "load")
        ELSE IF input.pause
        THEN idle([W EXCEPT !.g.state = "PAUSED"], "pause")
        ELSE playTick(W, input, rnd)

(* The callback of the goal's setTimeout.                                  *)
levelCompleteTimeout(W) ==
    [W EXCEPT !.g.timeouts = @ - 1,
              !.g.state = IF belowLevelCount(W.g.currentLevel + 1)
                          THEN "LEVEL_COMPLETE" ELSE "WIN"]

---------------------------------------------------------------------------
(* Observation record left by every operation of the model.                *)

Obs(op, pre, mid, xhits, hits, ret) ==
    [op |-> op, pre |-> pre, mid |-> mid, xhits |-> xhits, hits |-> hits,
     ret |-> ret]

NoObs == Obs("init", NoObj, NoObj, <<>>, <<>>, "none")

---------------------------------------------------------------------------
(* Physics harness: one entity on a small grid, driven the way the unit    *)
(* tests drive the engine (fields set directly, then applyGravity and      *)
(* resolveCollisions called in any order).                                 *)

MaxPhysSteps == 4

PhysGrids ==
    { << <<".", ".", ".", ".", ".">>,
         <<".", ".", ".", ".", ".">>,
         <<".", ".", ".", ".", ".">>,
         <<".", ".", ".", ".", ".">>,
         <<"#", "#", "#", "#", "#">> >>,
      << <<".", ".", ".", ".", ".">>,
         <<".", ".", "?", "B", ".">>,
         <<".", ".", ".", ".", ".">>,
         <<".", ".", ".", ".", "#">>,
         <<"#", "#", ".", "#", "#">> >> }

PhysXs  == {18 * Unit, (65 * Unit) \div 2, 49 * Unit}
PhysYs  == {33 * Unit, 40 * Unit, 48 * Unit}
PhysVxs == {-3 * Unit, 0, 3 * Unit}
PhysVys == {-10 * Unit, -GRAVITY, 0, 4 * Unit, 12 * Unit}

PhysEntity(x, y, vx, vy, og) ==
    [x |-> x, y |-> y, w |-> 14 * Unit, h |-> 16 * Unit,
     vx |-> vx, vy |-> vy, onGround |-> og]

InitPhys ==
    /\ grid \in PhysGrids
    /\ \E x \in PhysXs, y \in PhysYs :
          ent = PhysEntity(x, y, 0, 0, FALSE)
    /\ player = NoObj
    /\ ai = NoObj
    /\ game = NoObj
    /\ harness = "entity"
    /\ obs = NoObs
    /\ steps = 0

(* A test or an entity's own update writes the velocity fields.            *)
PhysSetVelocity ==
    /\ steps < MaxPhysSteps
    /\ \E vx \in PhysVxs, vy \in PhysVys :
          ent' = [ent EXCEPT !.vx = vx, !.vy = vy]
    /\ obs' = Obs("set", ent, NoObj, <<>>, <<>>, "none")
    /\ steps' = steps + 1
    /\ UNCHANGED <<grid, player, ai, game, harness>>

PhysApplyGravity ==
    /\ steps < MaxPhysSteps
    /\ ent' = applyGravity(ent)
    /\ obs' = Obs("gravity", ent, NoObj, <<>>, <<>>, "none")
    /\ steps' = steps + 1
    /\ UNCHANGED <<grid, player, ai, game, harness>>

PhysResolveCollisions ==
    /\ steps < MaxPhysSteps
    /\ LET r == resolveCollisions(ent, grid, TRUE)
       IN  /\ ent' = r.e
           /\ obs' = Obs("resolve", ent, r.mid, r.xhits, r.hits, "none")
    /\ steps' = steps + 1
    /\ UNCHANGED <<grid, player, ai, game, harness>>

NextPhys == PhysSetVelocity \/ PhysApplyGravity \/ PhysResolveCollisions

SpecPhys == InitPhys /\ [][NextPhys]_vars

(* The solid tiles of the scanned range that the box overlaps once the     *)
(* entity m (as it is after the X pass) has made its Y move.               *)
MovedY(m) == AABB(m.x, m.y + m.vy, m.w, m.h)

ScannedY(m) ==
    LET b == MovedY(m)
    IN  { t \in ((b.x \div TILE_SIZE) .. ((b.x + b.w - Unit) \div TILE_SIZE))
                \X ((b.y \div TILE_SIZE) .. ((b.y + b.h - Unit) \div TILE_SIZE)) :
            TRUE }

OverlappedY(m, g) ==
    { t \in ScannedY(m) :
        isSolid(g, t[1], t[2]) /\ intersects(MovedY(m), TileBox(t[1], t[2])) }

(* The first tile of a set in row-major order.                             *)
FirstTile(S) ==
    CHOOSE t \in S : \A u \in S : t[2] < u[2] \/ (t[2] = u[2] /\ t[1] <= u[1])

Resolved == obs.op = "resolve"

\* C1: a falling entity whose Y move overlaps a solid tile of the scanned
\* range ends the pass on top of that tile (y = tileTop - h), grounded, with
\* vy = 0, and the Y pass leaves x and vx as the X pass left them.
C1_Landing ==
    (Resolved /\ obs.mid.vy > 0 /\ OverlappedY(obs.mid, grid) # {}) =>
        /\ ent.y = FirstTile(OverlappedY(obs.mid, grid))[2] * TILE_SIZE - ent.h
        /\ ent.onGround = TRUE
        /\ ent.vy = 0
        /\ ent.x = obs.mid.x
        /\ ent.vx = obs.mid.vx

C1_Witness ==
    /\ Resolved /\ obs.mid.vy > 0 /\ OverlappedY(obs.mid, grid) # {}
    /\ obs.pre.vx # 0 /\ obs.mid.vx # 0
    /\ ent.onGround /\ ent.y # obs.pre.y

\* C2: after a resolveCollisions pass onGround is true exactly when a
\* downward collision was resolved in that pass, whatever it was before.
C2_GroundedIff ==
    Resolved =>
        (ent.onGround <=> (obs.mid.vy > 0 /\ OverlappedY(obs.mid, grid) # {}))

C2_Witness ==
    /\ Resolved /\ obs.pre.onGround = TRUE /\ ent.onGround = FALSE

\* C3: a rising entity whose Y move overlaps a solid tile is snapped to the
\* tile's bottom edge with vy = 0 and onGround false, and onHeadHit is
\* called once, with that tile's (col,row); onHeadHit is never called for a
\* passable tile, for a downward collision or during the X pass.
C3_HeadHit ==
    Resolved =>
        /\ obs.xhits = <<>>
        /\ (obs.mid.vy >= 0 => obs.hits = <<>>)
        /\ \A i \in 1 .. Len(obs.hits) :
              isSolid(grid, obs.hits[i][1], obs.hits[i][2])
        /\ (obs.mid.vy < 0 /\ OverlappedY(obs.mid, grid) # {}) =>
              LET t == FirstTile(OverlappedY(obs.mid, grid))
              IN  /\ ent.y = (t[2] + 1) * TILE_SIZE
                  /\ ent.vy = 0
                  /\ ent.onGround = FALSE
                  /\ obs.hits = <<t>>
        /\ (obs.mid.vy < 0 /\ OverlappedY(obs.mid, grid) = {}) =>
              obs.hits = <<>>

C3_Witness ==
    /\ Resolved /\ obs.mid.vy < 0 /\ obs.hits = << <<2, 1>> >>
    /\ ent.vy = 0

\* C4: applyGravity adds GRAVITY to vy and caps the result at
\* MAX_FALL_SPEED: vy <= MAX_FALL_SPEED after every call, and a vy already
\* at MAX_FALL_SPEED is left unchanged.
C4_Gravity ==
    obs.op = "gravity" =>
        /\ ent.vy <= MAX_FALL_SPEED
        /\ (obs.pre.vy + GRAVITY <= MAX_FALL_SPEED =>
               ent.vy = obs.pre.vy + GRAVITY)
        /\ (obs.pre.vy = MAX_FALL_SPEED => ent.vy = obs.pre.vy)

C4_Witness ==
    /\ obs.op = "gravity" /\ obs.pre.vy = MAX_FALL_SPEED
    /\ ent.vy = MAX_FALL_SPEED

---------------------------------------------------------------------------
(* Unit harness for the controllers: one Player or one AIPlayer on a small *)
(* grid, its methods called in any order with arguments from small sets,   *)
(* as the unit tests and the orchestrator call them.                       *)

MaxUnitSteps == 4

UnitGrids ==
    { << <<".", ".", ".", ".", ".", ".", ".", ".">>,
         <<".", ".", "?", ".", ".", ".", ".", ".">>,
         <<".", ".", ".", ".", ".", ".", ".", ".">>,
         <<".", ".", ".", ".", ".", ".", ".", ".">>,
         <<"#", "#", "#", "#", "#", "#", "#", "#">> >>,
      << <<".", ".", ".", ".", ".", ".", ".", ".">>,
         <<".", ".", ".", ".", ".", ".", ".", ".">>,
         <<".", ".", ".", ".", ".", ".", ".", ".">>,
         <<".", ".", ".", ".", ".", ".", "#", ".">>,
         <<"#", "#", "#", ".", ".", "#", "#", "#">> >> }

UnitStarts ==
    { <<18 * Unit, 48 * Unit>>, <<18 * Unit, 70 * Unit>>,
      <<18 * Unit, -40 * Unit>> }

MkEntity(type, x, y) ==
    [type |-> type, x |-> x, y |-> y, alive |-> TRUE, collected |-> FALSE]

EntityLists ==
    { <<>>,
      << MkEntity("enemy", 60 * Unit, 50 * Unit) >>,
      << MkEntity("coin", 2 * Unit, 40 * Unit),
         MkEntity("enemy", 40 * Unit, 50 * Unit) >>,
      << MkEntity("coin", 30 * Unit, 10 * Unit) >> }

InitUnit ==
    /\ grid \in UnitGrids
    /\ harness \in {"player", "ai"}
    /\ \E s \in UnitStarts :
          /\ player = IF harness = "player" THEN NewPlayer(s[1], s[2]) ELSE NoObj
          /\ ai = IF harness = "ai" THEN NewAIPlayer(s[1], s[2]) ELSE NoObj
    /\ ent = NoObj
    /\ game = NoObj
    /\ obs = NoObs
    /\ steps = 0

UnitStep(h) ==
    /\ harness = h
    /\ steps < MaxUnitSteps
    /\ steps' = steps + 1
    /\ UNCHANGED <<grid, ent, game, harness>>

UPlayerUpdate ==
    /\ UnitStep("player")
    /\ \E input \in Inputs :
          LET r == PlayerUpdate(player, input)
          IN  /\ player' = r.p
              /\ obs' = Obs("update", player, NoObj, <<>>, <<>>,
                            [sfx |-> r.sfx, input |-> input])
    /\ UNCHANGED ai

(* The orchestrator's physics for the player: game.js 754-755.             *)
UPlayerPhysics ==
    /\ UnitStep("player")
    /\ LET r == resolveCollisions(applyGravity(player), grid, TRUE)
       IN  /\ player' = r.e
           /\ obs' = Obs("physics", player, r.mid, r.xhits, r.hits, "none")
    /\ UNCHANGED ai

UPlayerDie ==
    /\ UnitStep("player")
    /\ LET r == PlayerDie(player)
       IN  /\ player' = r.p
           /\ obs' = Obs("die", player, NoObj, <<>>, <<>>, r.ret)
    /\ UNCHANGED ai

UPlayerRespawn ==
    /\ UnitStep("player")
    /\ \E s \in UnitStarts :
          /\ player' = PlayerRespawn(player, s[1], s[2])
          /\ obs' = Obs("respawn", player, NoObj, <<>>, <<>>, s)
    /\ UNCHANGED ai

(* Field writes the orchestrator and the tests make on a Player:           *)
(* starPower (game.js 677, 921), finished (game.js 940) and                *)
(* invincibleTimer = 0 (tests.js 392).                                     *)
UPlayerWrite ==
    /\ UnitStep("player")
    /\ \/ \E b \in BOOLEAN : player' = [player EXCEPT !.starPower = b]
       \/ player' = [player EXCEPT !.finished = TRUE]
       \/ player' = [player EXCEPT !.invincibleTimer = 0]
    /\ obs' = Obs("write", player, NoObj, <<>>, <<>>, "none")
    /\ UNCHANGED ai

UPlayerAddCoin ==
    /\ UnitStep("player")
    /\ player' = addCoin(player)
    /\ obs' = Obs("addCoin", player, NoObj, <<>>, <<>>, "none")
    /\ UNCHANGED ai

UAIUpdate ==
    /\ UnitStep("ai")
    /\ \E entities \in EntityLists, rnd \in BOOLEAN :
          LET done(r) ==
                /\ ai' = r.a
                /\ obs' = Obs("update", ai, NoObj, <<>>, <<>>,
                              [sfx |-> r.sfx, input |-> r.input,
                               fault |-> r.fault, decided |-> r.decided,
                               entities |-> entities])
          IN  done(AIUpdate(ai, grid, entities, rnd))
    /\ UNCHANGED player

(* The orchestrator's physics for the AI: game.js 769-770.                 *)
UAIPhysics ==
    /\ UnitStep("ai")
    /\ LET r == resolveCollisions(applyGravity(ai), grid, TRUE)
       IN  /\ ai' = r.e
           /\ obs' = Obs("physics", ai, r.mid, r.xhits, r.hits, "none")
    /\ UNCHANGED player

UAIDie ==
    /\ UnitStep("ai")
    /\ ai' = AIDie(ai)
    /\ obs' = Obs("die", ai, NoObj, <<>>, <<>>, "none")
    /\ UNCHANGED player

UAIRespawn ==
    /\ UnitStep("ai")
    /\ \E s \in UnitStarts :
          /\ ai' = AIRespawn(ai, s[1], s[2])
          /\ obs' = Obs("respawn", ai, NoObj, <<>>, <<>>, s)
    /\ UNCHANGED player

(* finished = true is written by the orchestrator (game.js 968).           *)
UAIFinish ==
    /\ UnitStep("ai")
    /\ ai' = [ai EXCEPT !.finished = TRUE]
    /\ obs' = Obs("write", ai, NoObj, <<>>, <<>>, "none")
    /\ UNCHANGED player

NextUnit ==
    \/ UPlayerUpdate \/ UPlayerPhysics \/ UPlayerDie \/ UPlayerRespawn
    \/ UPlayerWrite \/ UPlayerAddCoin
    \/ UAIUpdate \/ UAIPhysics \/ UAIDie \/ UAIRespawn \/ UAIFinish

SpecUnit == InitUnit /\ [][NextUnit]_vars

UpdatedPlayer == harness = "player" /\ obs.op = "update"
UpdatedAI     == harness = "ai" /\ obs.op = "update"

\* C5: Player.die() returns false and leaves alive, lives, vx and vy alone
\* while invincibleTimer > 0 or starPower; otherwise it returns true, clears
\* alive, zeroes vx, sets vy to the death hop (-8) and takes exactly one life.
C5_Die ==
    (harness = "player" /\ obs.op = "die") =>
        IF obs.pre.invincibleTimer > 0 \/ obs.pre.starPower
        THEN /\ obs.ret = FALSE
             /\ player.alive = obs.pre.alive
             /\ player.lives = obs.pre.lives
             /\ player.vx = obs.pre.vx
             /\ player.vy = obs.pre.vy
        ELSE /\ obs.ret = TRUE
             /\ player.alive = FALSE
             /\ player.vx = 0
             /\ player.vy = -8 * Unit
             /\ player.lives = obs.pre.lives - 1

C5_Witness ==
    /\ harness = "player" /\ obs.op = "die"
    /\ obs.pre.starPower /\ obs.pre.invincibleTimer = 0 /\ obs.pre.alive
    /\ obs.pre.vx # 0
    /\ obs.ret = FALSE /\ player.alive

\* C6: Player.respawn(x, y) from any state puts the player at (x, y) with
\* zero velocity, alive, deathTimer 0, not finished, no star power and
\* invincibleTimer = 120, so that a die() right after it returns false;
\* lives, score and coins are unchanged.
C6_Respawn ==
    (harness = "player" /\ obs.op = "respawn") =>
        /\ player.x = obs.ret[1] /\ player.y = obs.ret[2]
        /\ player.vx = 0 /\ player.vy = 0
        /\ player.alive = TRUE
        /\ player.deathTimer = 0
        /\ player.finished = FALSE
        /\ player.starPower = FALSE
        /\ player.invincibleTimer = 120
        /\ PlayerDie(player).ret = FALSE
        /\ PlayerDie(player).p = player
        /\ player.lives = obs.pre.lives
        /\ player.score = obs.pre.score
        /\ player.coins = obs.pre.coins

C6_Witness ==
    /\ harness = "player" /\ obs.op = "respawn"
    /\ ~obs.pre.alive /\ obs.pre.lives < START_LIVES /\ obs.pre.score > 0
    /\ obs.pre.deathTimer > 0
    /\ <<obs.pre.x, obs.pre.y>> # obs.ret

\* C7: an update of a live, unfinished Player or AIPlayer sets vy to the
\* jump impulse and clears onGround exactly when jump is requested and
\* onGround is true; in every other update of a live object vy and onGround
\* are left alone, so an update that follows a jump without a grounded
\* resolution in between cannot apply the impulse again.
C7_JumpGating ==
    /\ UpdatedPlayer /\ obs.pre.alive =>
          IF ~obs.pre.finished /\ obs.ret.input.jump /\ obs.pre.onGround
          THEN player.vy = -10 * Unit /\ player.onGround = FALSE
          ELSE player.vy = obs.pre.vy /\ player.onGround = obs.pre.onGround
    /\ UpdatedAI /\ obs.pre.alive =>
          IF obs.ret.decided /\ obs.ret.input.jump /\ obs.pre.onGround
          THEN ai.vy = -10 * Unit /\ ai.onGround = FALSE
          ELSE ai.vy = obs.pre.vy /\ ai.onGround = obs.pre.onGround

(* The second of two updates with jump held and no resolution in between.  *)
C7_Witness ==
    /\ UpdatedPlayer /\ obs.pre.alive /\ ~obs.pre.finished
    /\ obs.ret.input.jump
    /\ obs.pre.vy = -10 * Unit /\ obs.pre.onGround = FALSE
    /\ player.vy = -10 * Unit

(* The gap rule as the specification states it: some column among the     *)
(* next lookAhead columns, inside the grid, has no solid tile in the rows  *)
(* of the grid among footRow .. footRow + 2 (rows above the grid are       *)
(* passable; the foot row itself is not below the grid).                   *)
GapDeclared(a, g) ==
    LET col == (a.x + 7 * Unit) \div TILE_SIZE
        row == (a.y + a.h) \div TILE_SIZE
    IN  /\ row < Len(g)
        /\ \E i \in 1 .. a.lookAhead :
              /\ col + i >= 0 /\ col + i < Len(g[1])
              /\ \A r \in Max(row, 0) .. Min(row + 2, Len(g) - 1) :
                    g[r + 1][col + i + 1] \notin SOLID_TILES

\* C9: whenever a live, unfinished AIPlayer is updated and a gap lies within
\* lookAhead columns, the update produces an intent with jump = true, for
\* every frameCount.
C9_GapRule ==
    (UpdatedAI /\ obs.pre.alive /\ ~obs.pre.finished
       /\ GapDeclared(obs.pre, grid)) =>
        (obs.ret.decided /\ obs.ret.input.jump)

\* C12: AIPlayer.update returns normally for every agent position, grid and
\* entity list: no update ends in an exception.
C12_NeverFaults == UpdatedAI => ~obs.ret.fault

---------------------------------------------------------------------------
(* The game: start(), then ticks of _update with any input, interleaved    *)
(* with the goal's timer callback.  steps counts the ticks that reach the  *)
(* PLAYING part of _update.                                                *)

MaxPlayTicks == 5
MaxLevel == 2

GameInputs ==
    { GameInput(FALSE, FALSE, FALSE, FALSE, FALSE),
      GameInput(TRUE, FALSE, FALSE, FALSE, FALSE),
      GameInput(FALSE, TRUE, FALSE, FALSE, FALSE),
      GameInput(FALSE, FALSE, TRUE, FALSE, FALSE),
      GameInput(TRUE, FALSE, TRUE, FALSE, FALSE),
      GameInput(FALSE, TRUE, TRUE, FALSE, FALSE),
      GameInput(FALSE, FALSE, FALSE, TRUE, FALSE),
      GameInput(FALSE, FALSE, FALSE, FALSE, TRUE) }

(* The inputs _update reads in a state: none while READY, the pause key    *)
(* while PAUSED, Enter on the end screens, everything but Enter in play.   *)
InputsRead(state) ==
    IF state = "READY" THEN { i \in GameInputs : i = GameInput(FALSE, FALSE, FALSE, FALSE, FALSE) }
    ELSE IF state = "PAUSED"
    THEN { i \in GameInputs : ~i.left /\ ~i.right /\ ~i.jump /\ ~i.enter }
    ELSE IF state = "PLAYING" THEN { i \in GameInputs : ~i.enter }
    ELSE { i \in GameInputs : ~i.left /\ ~i.right /\ ~i.jump /\ ~i.pause }

(* Math.random() is read by a live, unfinished AI player in play only.     *)
RandomRead ==
    IF game.state = "PLAYING" /\ ai # NoObj /\ ai.alive /\ ~ai.finished
    THEN BOOLEAN ELSE {FALSE}

World ==
    [g |-> game, t |-> grid, p |-> player, a |-> ai, coinLog |-> <<>>,
     tick |-> NoTick]

SetWorld(W) ==
    /\ game' = W.g
    /\ grid' = W.t
    /\ player' = W.p
    /\ ai' = W.a

(* The coins of the player and the AI, and the pickups spawned so far.     *)
CoinsHeld == player.coins + (IF ai = NoObj THEN 0 ELSE ai.coins)

PickupsSpawned == Len(game.mushrooms) + Len(game.stars)

GameObs(op, kind, respawned, coinLog, tick) ==
    Obs(op, [player |-> player, ai |-> ai, state |-> game.state,
             currentLevel |-> game.currentLevel, tiles |-> grid,
             coins |-> CoinsHeld, pickups |-> PickupsSpawned],
        tick, <<>>, coinLog, [kind |-> kind, respawned |-> respawned])

InitGame ==
    /\ harness = "game"
    /\ \E aiMode \in BOOLEAN, timeAttack \in BOOLEAN :
          LET W == startGame(aiMode, timeAttack)
          IN  /\ game = W.g
              /\ grid = W.t
              /\ player = W.p
              /\ ai = W.a
    /\ ent = NoObj
    /\ obs = NoObs
    /\ steps = 0

GameTick ==
    /\ harness = "game"
    /\ game.state = "PLAYING" => steps < MaxPlayTicks
    /\ \E input \in InputsRead(game.state), rnd \in RandomRead :
          LET done(r) ==
                /\ (r.kind = "load" /\ game.state = "LEVEL_COMPLETE")
                       => game.currentLevel < MaxLevel
                /\ SetWorld(r.W)
                /\ obs' = GameObs("tick", r.kind, r.respawned, r.W.coinLog, r.W.tick)
                /\ steps' = IF r.kind \in {"played", "fault"} THEN steps + 1
                            ELSE steps
          IN  done(update(World, input, rnd))
    /\ UNCHANGED <<ent, harness>>

LevelCompleteTimeout ==
    /\ harness = "game"
    /\ game.timeouts > 0
    /\ SetWorld(levelCompleteTimeout(World))
    /\ obs' = GameObs("timeout", "timeout", FALSE, <<>>, NoTick)
    /\ UNCHANGED <<ent, harness, steps>>

NextGame == GameTick \/ LevelCompleteTimeout

SpecGame == InitGame /\ [][NextGame]_vars

PlayedTick == harness = "game" /\ obs.op = "tick" /\ obs.ret.kind = "played"

\* C8: once the player is finished, a tick of the game that neither respawns
\* the player nor loads a level leaves the player's position (x, y) as it
\* was, whatever the input.
C8_FinishedFrozen ==
    (PlayedTick /\ obs.pre.player.finished /\ ~obs.ret.respawned) =>
        (player.x = obs.pre.player.x /\ player.y = obs.pre.player.y)

\* C10: in AI mode, from a level load on and until the next one, the AI
\* player's move speed, look-ahead and reaction delay are the difficulty
\* profile of the loaded level index.
C10_DifficultyOfLevel ==
    (harness = "game" /\ game.aiMode) =>
        LET profile == DifficultyProfile(game.currentLevel)
        IN  /\ ai.moveSpeed = profile.moveSpeed
            /\ ai.lookAhead = profile.lookAhead
            /\ ai.reactionDelay = profile.reactionDelay

\* The number of 'C' glyphs of the map of a level.
CoinGlyphs(levelIndex) ==
    LET map  == LevelSource(levelIndex).map
        cols == MaxRowLen(map, 1)
    IN  Cardinality({ k \in 0 .. (Len(map) * cols - 1) :
                        GlyphAt(map, k \div cols, k % cols) = "C" })

LevelLoaded ==
    /\ harness = "game"
    /\ obs.op = "init" \/ (obs.op = "tick" /\ obs.ret.kind = "load")

\* C19: a loaded level has one coin entity per 'C' glyph of its map, none of
\* them collected; a coin is collected only while it is not yet collected,
\* by one collector per tick, and each collection adds exactly 1 to the
\* collector's coins and exactly 100 to its score.
C19_CoinsOnce ==
    harness = "game" =>
        /\ Len(game.coins) = CoinGlyphs(game.currentLevel)
        /\ LevelLoaded => \A i \in DOMAIN game.coins : ~game.coins[i].collected
        /\ \A k \in DOMAIN obs.hits :
              /\ ~obs.hits[k].was
              /\ obs.hits[k].coins = 1
              /\ obs.hits[k].score = 100
              /\ game.coins[obs.hits[k].coin].collected
              /\ \A l \in DOMAIN obs.hits :
                    obs.hits[l].coin = obs.hits[k].coin => l = k

(* The player takes the coin of a level whose map has one 'C'.             *)
C19_Witness ==
    /\ PlayedTick
    /\ CoinGlyphs(game.currentLevel) = 1
    /\ Len(obs.hits) = 1
    /\ obs.hits[1].by = "player"
    /\ player.coins = obs.pre.player.coins + 1
    /\ game.coins[1].collected

(* The parts of a PLAYING tick in the order of _update; the AI's part is   *)
(* there when the game has an AI, and an exception in it ends the tick.    *)
PartsInOrder(withAI, fault) ==
    IF fault THEN <<"player", "ai">>
    ELSE <<"player">> \o (IF withAI THEN <<"ai">> ELSE <<>>)
             \o <<"enemies", "pickups", "collisions", "camera">>

\* C24: every PLAYING tick runs the player's part, then the AI's, then the
\* enemies, the pickups, the collision pass and the camera; the grid handed
\* to the AI is the grid as the player's part left it, and the camera
\* follows the player as the collision pass left it.
C24_TickOrder ==
    (harness = "game" /\ obs.op = "tick" /\ obs.ret.kind \in {"played", "fault"}) =>
        /\ obs.mid.order = PartsInOrder(obs.pre.ai # NoObj, obs.ret.kind = "fault")
        /\ obs.pre.ai # NoObj => obs.mid.aiTiles = obs.mid.playerTiles
        /\ (obs.ret.kind = "played" /\ ~obs.ret.respawned) =>
              game.camera = cameraFollow(player, game.level.width, game.level.height)

(* A tick in which the player's head hit changed a tile and the AI read    *)
(* the changed grid.                                                       *)
C24_Witness ==
    /\ PlayedTick
    /\ obs.pre.ai # NoObj
    /\ obs.mid.playerTiles # obs.pre.tiles
    /\ obs.mid.aiTiles = obs.mid.playerTiles
    /\ obs.mid.order = <<"player", "ai", "enemies", "pickups", "collisions", "camera">>

---------------------------------------------------------------------------
(* Calls of single functions with arguments drawn from bounded sets: the   *)
(* difficulty setter of an AI player, tile reads, box tests and the        *)
(* camera.  Each action is one call; obs holds its arguments and result,   *)
(* and harness names the function under call.                              *)

MaxDifficultyLevel == 20

PureBase ==
    /\ grid = <<>>
    /\ player = NoObj
    /\ game = NoObj
    /\ obs = NoObs
    /\ steps = 0

InitDifficulty ==
    /\ harness = "difficulty"
    /\ ai = NewAIPlayer(0, 0)
    /\ ent = NoObj
    /\ PureBase

PureSetDifficulty ==
    /\ harness = "difficulty"
    /\ \E levelIndex \in 0 .. MaxDifficultyLevel :
          /\ ai' = setDifficulty(ai, levelIndex)
          /\ obs' = Obs("setDifficulty", ai, NoObj, <<>>, <<>>,
                        [levelIndex |-> levelIndex])
    /\ UNCHANGED <<grid, ent, player, game, harness, steps>>

SetDifficultyCalled == harness = "difficulty" /\ obs.op = "setDifficulty"

\* C11: setDifficulty(b) gives a move speed and look-ahead at least those of
\* every level index a <= b and at most 4.5 and 10, and a reaction delay at
\* most that of every a <= b and at least 3; level 0 gives 2.5 / 6 / 8.
C11_MonotoneCapped ==
    SetDifficultyCalled =>
        /\ ai.difficultyLevel = obs.ret.levelIndex
        /\ ai.moveSpeed <= (45 * Unit) \div 10
        /\ ai.lookAhead <= 10
        /\ ai.reactionDelay >= 3
        /\ \A a \in 0 .. obs.ret.levelIndex :
              /\ setDifficulty(obs.pre, a).moveSpeed <= ai.moveSpeed
              /\ setDifficulty(obs.pre, a).lookAhead <= ai.lookAhead
              /\ setDifficulty(obs.pre, a).reactionDelay >= ai.reactionDelay
        /\ obs.ret.levelIndex = 0 =>
              /\ ai.moveSpeed = (25 * Unit) \div 10
              /\ ai.lookAhead = 6
              /\ ai.reactionDelay = 8

(* A level index past all three caps has been set after a lower one.       *)
C11_Witness ==
    /\ SetDifficultyCalled
    /\ obs.ret.levelIndex >= 14
    /\ obs.pre.difficultyLevel > 0
    /\ obs.pre.difficultyLevel < 10
    /\ ai.moveSpeed = (45 * Unit) \div 10
    /\ ai.lookAhead = 10
    /\ ai.reactionDelay = 3

(* Tile reads.  The grids: none (null), empty, one empty row, a           *)
(* rectangular grid holding solid, empty and unlisted glyphs, and two      *)
(* grids whose rows differ in length.                                      *)
TileEngines ==
    { PhysicsEngine(FALSE, <<>>),
      PhysicsEngine(TRUE, <<>>),
      PhysicsEngine(TRUE, << <<>> >>),
      PhysicsEngine(TRUE, << <<".", "#", "C">>,
                             <<"?", ".", "B">>,
                             <<"=", "P", "x">> >>),
      PhysicsEngine(TRUE, << <<".", "#", ".">>,
                             <<"#">>,
                             <<"#", "#">> >>),
      PhysicsEngine(TRUE, << <<".">>,
                             <<"#", "#", "#">> >>) }

TileReach == 4

(* The arguments of a call that changes no state are drawn by Init and    *)
(* kept in ent; the action is the call.                                    *)
InitTiles ==
    /\ harness = "tiles"
    /\ \E engine \in TileEngines,
          col \in -TileReach .. TileReach,
          row \in -TileReach .. TileReach :
          ent = [engine |-> engine, col |-> col, row |-> row]
    /\ ai = NoObj
    /\ PureBase

PureGetTile ==
    /\ harness = "tiles"
    /\ obs.op = "init"
    /\ obs' = Obs("getTile", ent, NoObj, <<>>, <<>>,
                  [tile  |-> engineGetTile(ent.engine, ent.col, ent.row),
                   solid |-> engineIsSolid(ent.engine, ent.col, ent.row)])
    /\ UNCHANGED <<grid, ent, player, ai, game, harness, steps>>

TileRead == harness = "tiles" /\ obs.op = "getTile"

GridRows(engine) == IF engine.hasLevel THEN Len(engine.levelData) ELSE 0

GridCols(engine) ==
    IF GridRows(engine) = 0 THEN 0 ELSE Len(engine.levelData[1])

Rectangular(engine) ==
    \A r \in 1 .. GridRows(engine) :
        Len(engine.levelData[r]) = GridCols(engine)

InBounds(engine, col, row) ==
    /\ row >= 0 /\ row < GridRows(engine)
    /\ col >= 0 /\ col < GridCols(engine)

\* C13: on a rectangular (or empty, or null) grid a cell outside the bounds
\* reads as '.' and is not solid; a cell inside reads as its glyph and is
\* solid exactly when the glyph is in the solid set.
C13_OutOfBoundsPassable ==
    (TileRead /\ Rectangular(obs.pre.engine)) =>
        IF InBounds(obs.pre.engine, obs.pre.col, obs.pre.row)
        THEN LET glyph == obs.pre.engine.levelData[obs.pre.row + 1][obs.pre.col + 1]
             IN  /\ obs.ret.tile = glyph
                 /\ obs.ret.solid <=>
                       glyph \in {"#", "B", "?", "P", "p", "T", "t", "="}
        ELSE obs.ret.tile = "." /\ ~obs.ret.solid

(* A read below the last row of a grid whose rows hold solid tiles.        *)
C13_Witness ==
    /\ TileRead
    /\ Rectangular(obs.pre.engine)
    /\ GridRows(obs.pre.engine) = 3
    /\ obs.pre.row >= 3
    /\ obs.pre.col = 1
    /\ obs.ret.tile = "."
    /\ ~obs.ret.solid

\* C14: getTile never returns undefined, whatever the grid and the
\* coordinates: what it returns is a glyph.
C14_NeverUndefined == TileRead => obs.ret.tile # "undefined"

(* Box tests.  Corner coordinates 0 .. BoxReach and sizes 0 .. BoxSize,    *)
(* in pixels.                                                              *)
BoxReach == 3
BoxSize == 2

Boxes ==
    { AABB(x * Unit, y * Unit, w * Unit, h * Unit) :
        x \in 0 .. BoxReach, y \in 0 .. BoxReach,
        w \in 0 .. BoxSize, h \in 0 .. BoxSize }

InitBoxes ==
    /\ harness = "boxes"
    /\ \E a \in Boxes, b \in Boxes : ent = [a |-> a, b |-> b]
    /\ ai = NoObj
    /\ PureBase

PureIntersects ==
    /\ harness = "boxes"
    /\ obs.op = "init"
    /\ obs' = Obs("intersects", ent, NoObj, <<>>, <<>>,
                  [ab |-> intersects(ent.a, ent.b),
                   ba |-> intersects(ent.b, ent.a),
                   collision |-> checkEntityCollision(ent.a, ent.b)])
    /\ UNCHANGED <<grid, ent, player, ai, game, harness, steps>>

BoxesTested == harness = "boxes" /\ obs.op = "intersects"

(* The extent of the overlap of two intervals [p, p + m] and [q, q + n].   *)
Overlap(p, m, q, n) == Min(p + m, q + n) - Max(p, q)

PositiveSize(box) == box.w > 0 /\ box.h > 0

\* C15: for boxes of positive width and height, intersects is true exactly
\* when the overlap has positive extent on both axes (sharing only an edge
\* or a corner is no intersection), and checkEntityCollision agrees.
C15_Exclusive ==
    (BoxesTested /\ PositiveSize(obs.pre.a) /\ PositiveSize(obs.pre.b)) =>
        /\ obs.ret.ab <=>
              /\ Overlap(obs.pre.a.x, obs.pre.a.w, obs.pre.b.x, obs.pre.b.w) > 0
              /\ Overlap(obs.pre.a.y, obs.pre.a.h, obs.pre.b.y, obs.pre.b.h) > 0
        /\ obs.ret.collision = obs.ret.ab

(* Two boxes of positive size that share an edge and nothing more.         *)
C15_Witness ==
    /\ BoxesTested
    /\ PositiveSize(obs.pre.a) /\ PositiveSize(obs.pre.b)
    /\ obs.pre.a.x + obs.pre.a.w = obs.pre.b.x
    /\ obs.pre.a.y = obs.pre.b.y
    /\ ~obs.ret.ab
    /\ ~obs.ret.collision

\* C16: intersects is symmetric: A.intersects(B) = B.intersects(A) for
\* boxes of any position and any non-negative size.
C16_Symmetric == BoxesTested => obs.ret.ab = obs.ret.ba

(* Two different boxes, one of them without width, that intersect.         *)
C16_Witness ==
    /\ BoxesTested
    /\ obs.pre.a.w = 0
    /\ obs.pre.b.w > 0
    /\ obs.ret.ab
    /\ obs.ret.ba

\* C17: a box of width 0 or height 0 intersects nothing, wherever it lies.
C17_ZeroSizeNeverIntersects ==
    (BoxesTested /\ (~PositiveSize(obs.pre.a) \/ ~PositiveSize(obs.pre.b))) =>
        (~obs.ret.ab /\ ~obs.ret.ba)

(***************************************************************************)
(* Camera.follow on the cameras the repository builds and on worlds       *)
(* smaller than the viewport, for targets in and around the world.         *)
(***************************************************************************)
CameraReach == 8

Cameras ==
    { Camera(CANVAS_WIDTH, CANVAS_HEIGHT, 1280 * Unit, CANVAS_HEIGHT),
      Camera(CANVAS_WIDTH, CANVAS_HEIGHT, 0, 0),
      Camera(CANVAS_WIDTH, CANVAS_HEIGHT, 6 * TILE_SIZE, 14 * TILE_SIZE),
      Camera(CANVAS_WIDTH, CANVAS_HEIGHT, 3 * CANVAS_WIDTH, 3 * CANVAS_HEIGHT),
      Camera(CANVAS_HEIGHT, CANVAS_WIDTH, CANVAS_WIDTH, CANVAS_WIDTH) }

CameraTargets ==
    { [x |-> i * (CANVAS_WIDTH \div 2), y |-> j * (CANVAS_HEIGHT \div 2)] :
        i \in -1 .. CameraReach, j \in -1 .. CameraReach }

InitCamera ==
    /\ PureBase
    /\ harness = "camera"
    /\ ai = NoObj
    /\ \E camera \in Cameras, target \in CameraTargets :
          ent = [camera |-> camera, target |-> target]

PureCameraFollow ==
    /\ harness = "camera"
    /\ obs.op = "init"
    /\ obs' = Obs("follow", ent, NoObj, <<>>, <<>>, follow(ent.camera, ent.target))
    /\ UNCHANGED <<grid, ent, player, ai, game, harness, steps>>

CameraFollowed == harness = "camera" /\ obs.op = "follow"

\* C18: after Camera.follow the camera lies between 0 and the larger of 0 and
\* world size minus viewport size, on both axes, for every target position
\* and every world and viewport size.
C18_CameraClamped ==
    CameraFollowed =>
        /\ 0 <= obs.ret.x
        /\ obs.ret.x <= Max(0, obs.ret.worldWidth - obs.ret.width)
        /\ 0 <= obs.ret.y
        /\ obs.ret.y <= Max(0, obs.ret.worldHeight - obs.ret.height)

(* A target past the right and bottom edges of a world larger than the     *)
(* viewport: the camera stops at world size minus viewport size.           *)
C18_Witness ==
    /\ CameraFollowed
    /\ obs.pre.target.x > obs.ret.worldWidth
    /\ obs.pre.target.y > obs.ret.worldHeight
    /\ obs.ret.worldWidth > obs.ret.width
    /\ obs.ret.worldHeight > obs.ret.height
    /\ obs.ret.x = obs.ret.worldWidth - obs.ret.width
    /\ obs.ret.y = obs.ret.worldHeight - obs.ret.height

(* The bound as stated without the larger-of-0: world size minus viewport  *)
(* size on both axes, whatever the sizes.                                  *)
C18_CameraWithinWorld ==
    CameraFollowed =>
        /\ 0 <= obs.ret.x
        /\ obs.ret.x <= obs.ret.worldWidth - obs.ret.width
        /\ 0 <= obs.ret.y
        /\ obs.ret.y <= obs.ret.worldHeight - obs.ret.height

(***************************************************************************)
(* parseLevel and getLevelCount, on the indexes of the level table, on     *)
(* indexes past it and on the index the test calls invalid.                *)
(***************************************************************************)
MaxLevelIndex == 6

LevelIndexes == (0 .. MaxLevelIndex) \cup {999}

InitLevels ==
    /\ PureBase
    /\ harness = "levels"
    /\ ai = NoObj
    /\ \E levelIndex \in LevelIndexes : ent = [levelIndex |-> levelIndex]

PureParseLevel ==
    /\ harness = "levels"
    /\ obs.op = "init"
    /\ obs' = Obs("parseLevel", ent, NoObj, <<>>, <<>>,
                  [level |-> parseLevel(ent.levelIndex), count |-> getLevelCount])
    /\ UNCHANGED <<grid, ent, player, ai, game, harness, steps>>

LevelParsed == harness = "levels" /\ obs.op = "parseLevel"

\* C26: getLevelCount() is a finite number >= 3; parseLevel returns a level
\* with tiles, entities and a player start for every index below it, and
\* null (no level) for every index from it on, such as 999.
C26_LevelSetFinite ==
    LevelParsed =>
        /\ obs.ret.count # Infinity
        /\ obs.ret.count >= 3
        /\ obs.pre.levelIndex < obs.ret.count =>
              /\ obs.ret.level # NoObj
              /\ Len(obs.ret.level.tiles) > 0
              /\ Len(obs.ret.level.entities) > 0
              /\ obs.ret.level.playerStart.x >= 0
        /\ obs.pre.levelIndex >= obs.ret.count => obs.ret.level = NoObj

InitPure ==
    InitDifficulty \/ InitTiles \/ InitBoxes \/ InitCamera \/ InitLevels

NextPure ==
    \/ PureSetDifficulty
    \/ PureGetTile
    \/ PureIntersects
    \/ PureCameraFollow
    \/ PureParseLevel

SpecPure == InitPure /\ [][NextPure]_vars

---------------------------------------------------------------------------
(* Enemy harness: one enemy, either driven as the unit test drives it      *)
(* (update() alone, then stomp()), or placed by the level parser on a      *)
(* small grid and stepped as _update steps every enemy (update(), then     *)
(* applyGravity and resolveCollisions).                                    *)

MaxEnemySteps == 250
MaxSquish == 3

(* Row 0 is air and row 1 is ground, 14 tiles wide: flat; with a wall in   *)
(* row 0; with no ground under the first four columns.                     *)
EnemyGrids ==
    { [r \in 1 .. 2 |-> [c \in 1 .. 14 |-> IF r = 2 THEN "#" ELSE "."]],
      [r \in 1 .. 2 |-> [c \in 1 .. 14 |->
          IF r = 2 \/ c = 4 THEN "#" ELSE "."]],
      [r \in 1 .. 2 |-> [c \in 1 .. 14 |->
          IF r = 2 /\ c > 4 THEN "#" ELSE "."]] }

InitEnemy ==
    /\ harness = "enemy"
    /\ \/ /\ grid = <<>>
          /\ ent = [mode |-> "unit", e |-> NewEnemy(100 * Unit, 100 * Unit),
                    flipped |-> FALSE]
       \/ /\ grid \in EnemyGrids
          /\ ent = [mode |-> "game",
                    e |-> NewEnemy(6 * TILE_SIZE, 0 * TILE_SIZE + 2 * Unit),
                    flipped |-> FALSE]
    /\ player = NoObj
    /\ ai = NoObj
    /\ game = NoObj
    /\ obs = NoObs
    /\ steps = 0

(* A direction is reversed when the velocity changed into its opposite.    *)
Reversed(before, after) == after.vx # before.vx /\ after.vx = -before.vx

EnemyStepped(u, e) ==
    /\ ent' = [ent EXCEPT !.e = e, !.flipped = Reversed(ent.e, u)]
    /\ obs' = Obs("update", ent, u, <<>>, <<>>, e)
    /\ steps' = steps + 1
    /\ UNCHANGED <<grid, player, ai, game, harness>>

EnemyCanStep(mode) ==
    /\ harness = "enemy"
    /\ ent.mode = mode
    /\ steps < MaxEnemySteps
    /\ ent.e.alive \/ ent.e.squishTimer < MaxSquish

(* enemy.update() alone.                                                   *)
EnemyUnitUpdate ==
    /\ EnemyCanStep("unit")
    /\ LET done(u) == EnemyStepped(u, u)
       IN  done(EnemyUpdate(ent.e))

(* The body of the enemy loop of _update.                                  *)
EnemyGameTick ==
    /\ EnemyCanStep("game")
    /\ LET done(u) ==
              EnemyStepped(u, resolveCollisions(applyGravity(u), grid, FALSE).e)
       IN  done(EnemyUpdate(ent.e))

(* enemy.stomp().                                                          *)
EnemyStomped ==
    /\ harness = "enemy"
    /\ ent.e.alive
    /\ ent' = [ent EXCEPT !.e = EnemyStomp(@), !.flipped = FALSE]
    /\ obs' = Obs("stomp", ent, NoObj, <<>>, <<>>, EnemyStomp(ent.e))
    /\ UNCHANGED <<grid, player, ai, game, harness, steps>>

NextEnemy == EnemyUnitUpdate \/ EnemyGameTick \/ EnemyStomped

SpecEnemy == InitEnemy /\ [][NextEnemy]_vars

LiveEnemyUpdated == harness = "enemy" /\ obs.op = "update" /\ obs.pre.e.alive

\* C20: an update of a live enemy reverses its horizontal direction exactly
\* when, after the move, abs(x - startX) > patrolRange; abs(x - startX)
\* never exceeds patrolRange + 1, and no two consecutive updates both
\* reverse the direction.
C20_PatrolReversal ==
    /\ LiveEnemyUpdated =>
          /\ Reversed(obs.pre.e, obs.mid)
                <=> Abs(obs.mid.x - obs.mid.startX) > obs.mid.patrolRange
          /\ ~(obs.pre.flipped /\ Reversed(obs.pre.e, obs.mid))
          /\ Abs(obs.mid.x - obs.mid.startX) <= obs.mid.patrolRange + Unit
    /\ (harness = "enemy" /\ ent.e.alive) =>
          Abs(ent.e.x - ent.e.startX) <= ent.e.patrolRange + Unit

(* An update moves a live enemy past its patrol range and reverses it.     *)
C20_Witness ==
    /\ LiveEnemyUpdated
    /\ Abs(obs.mid.x - obs.mid.startX) = obs.mid.patrolRange + Unit
    /\ Reversed(obs.pre.e, obs.mid)
    /\ obs.mid.vx = Unit

\* C21: after any number of game ticks (update, gravity, tile collision
\* resolution) a live enemy's vx is non-zero.
C21_KeepsMoving ==
    (harness = "enemy" /\ ent.mode = "game" /\ obs.op = "update" /\ ent.e.alive)
        => ent.e.vx # 0

---------------------------------------------------------------------------
(* Pickup harness: a '?' block in a small grid, the block-hit count of     *)
(* the game at 2, 3 or 6 (the next hit pays a coin, a mushroom or a star), *)
(* a head hit on the block, and the pickup part of a tick: the             *)
(* power-up loops of _update followed by _checkCollisions, with the player *)
(* standing at one of a few spots around the block.                        *)

MaxPickupTicks == 36

(* Row 1 holds the block (column 1), row 3 is ground; 8 columns.           *)
PickupGrids ==
    { [r \in 1 .. 4 |-> [c \in 1 .. 8 |->
          IF r = 4 THEN "#" ELSE IF r = 2 /\ c = 2 THEN "?" ELSE "."]],
      [r \in 1 .. 4 |-> [c \in 1 .. 8 |->
          IF r = 4 \/ (r = 1 /\ c = 3) THEN "#"
          ELSE IF r = 2 /\ c = 2 THEN "?" ELSE "."]] }

(* On top of the block, on the ground right of it, and further right.      *)
PickupSpots ==
    { [x |-> TILE_SIZE, y |-> 0],
      [x |-> 3 * TILE_SIZE, y |-> 2 * TILE_SIZE],
      [x |-> 6 * TILE_SIZE, y |-> 2 * TILE_SIZE] }

InitPickup ==
    /\ harness = "pickup"
    /\ grid \in PickupGrids
    /\ \E count \in {2, 3, 6}, aiMode \in BOOLEAN :
          /\ game = [NewGame(aiMode, FALSE) EXCEPT !.state = "PLAYING",
                                                 !.blockHitCount = count]
          /\ ai = IF aiMode THEN NewAIPlayer(0, 2 * TILE_SIZE) ELSE NoObj
    /\ \E spot \in PickupSpots : player = NewPlayer(spot.x, spot.y)
    /\ ent = NoObj
    /\ obs = NoObs
    /\ steps = 0

PickupObs(op) ==
    Obs(op, [mushrooms |-> game.mushrooms, stars |-> game.stars,
             lives |-> player.lives, starTimer |-> game.starTimer,
             tiles |-> grid, coins |-> CoinsHeld, pickups |-> PickupsSpawned],
        NoObj, <<>>, <<>>, [kind |-> op, respawned |-> FALSE])

(* The onHeadHit callback of the player or of the AI on a '?' block.       *)
PickupHeadHit ==
    /\ harness = "pickup"
    /\ \E row \in 0 .. Len(grid) - 1, col \in 0 .. Len(grid[1]) - 1,
          hitter \in {"player", "ai"} :
          /\ grid[row + 1][col + 1] = "?"
          /\ hitter = "ai" => ai # NoObj
          /\ SetWorld(onBlockHit(World, col, row, hitter))
    /\ obs' = PickupObs("hit")
    /\ UNCHANGED <<ent, harness, steps>>

(* The power-up loops of _update and the collision pass.                   *)
PickupTick ==
    /\ harness = "pickup"
    /\ steps < MaxPickupTicks
    /\ \E spot \in PickupSpots :
          LET at(W) == checkCollisions(powerupsStep(
                           [W EXCEPT !.p.x = spot.x, !.p.y = spot.y]))
          IN  SetWorld(at(World))
    /\ obs' = PickupObs("tick")
    /\ steps' = steps + 1
    /\ UNCHANGED <<ent, harness>>

NextPickup == PickupHeadHit \/ PickupTick

SpecPickup == InitPickup /\ [][NextPickup]_vars

Pickups == game.mushrooms \o game.stars

PickupsBefore == obs.pre.mushrooms \o obs.pre.stars

PickupTicked == harness = "pickup" /\ obs.op = "tick"

(* The pickup as it was before the tick that just ran.                     *)
Before(type, i) ==
    IF type = "mushroom" THEN obs.pre.mushrooms[i] ELSE obs.pre.stars[i]

After(type, i) ==
    IF type = "mushroom" THEN game.mushrooms[i] ELSE game.stars[i]

PickupIds ==
    {<<"mushroom", i>> : i \in DOMAIN obs.pre.mushrooms}
        \cup {<<"star", i>> : i \in DOMAIN obs.pre.stars}

NewlyCollected(id) ==
    ~Before(id[1], id[2]).collected /\ After(id[1], id[2]).collected

---------------------------------------------------------------------------
(* Blocks: the whole game from its start, where the hit count starts at 0, *)
(* together with the head-hit callback at the hit counts that pay a        *)
(* mushroom or a star.                                                     *)

InitBlocks == InitGame \/ InitPickup

NextBlocks == NextGame \/ NextPickup

SpecBlocks == InitBlocks /\ [][NextBlocks]_vars

(* The last operation ran within a level: it loaded none.                  *)
WithinLevel ==
    /\ harness \in {"game", "pickup"}
    /\ obs.op # "init"
    /\ obs.ret.kind # "load"

Cells == {<<r, c>> : r \in DOMAIN grid, c \in DOMAIN grid[1]}

CellsChanged == {rc \in Cells : grid[rc[1]][rc[2]] # obs.pre.tiles[rc[1]][rc[2]]}

(* What the last operation paid out: pickups spawned, and coins other than *)
(* the coin entities collected.                                            *)
Payouts ==
    (PickupsSpawned - obs.pre.pickups) + (CoinsHeld - obs.pre.coins - Len(obs.hits))

OneWay(from, to) ==
    from = to \/ (from = "?" /\ to = "=") \/ (from = "B" /\ to = ".")

\* C23: within a level an operation changes a cell only from '?' to '=' or
\* from 'B' to '.'; every cell is the loaded one or its single successor;
\* and the payouts of an operation (coins, mushrooms, stars) are as many as
\* the '?' cells it turned into '='.
C23_TilesOneWay ==
    /\ WithinLevel =>
          /\ \A rc \in Cells :
                OneWay(obs.pre.tiles[rc[1]][rc[2]], grid[rc[1]][rc[2]])
          /\ Payouts = Cardinality({rc \in CellsChanged :
                                      obs.pre.tiles[rc[1]][rc[2]] = "?"})
    /\ harness = "game" =>
          LET successors(loaded) ==
                \A rc \in Cells :
                    OneWay(loaded[rc[1]][rc[2]], grid[rc[1]][rc[2]])
          IN  successors(parseLevel(game.currentLevel).tiles)

(* A tick of the game in which a head hit turned a '?' into '=' and paid   *)
(* one coin.                                                               *)
C23_Witness ==
    /\ PlayedTick
    /\ Cardinality(CellsChanged) = 1
    /\ \E rc \in CellsChanged :
          obs.pre.tiles[rc[1]][rc[2]] = "?" /\ grid[rc[1]][rc[2]] = "="
    /\ Payouts = 1
    /\ player.coins = obs.pre.player.coins + 1

---------------------------------------------------------------------------
(* The frame loop (Game._loop).  Time is counted in 1/Ms milliseconds, so  *)
(* that the step 1000 / 60 ms is a whole number.                           *)

Ms == 2 * 3

STEP == (1000 * Ms) \div 60

FRAME_CAP == 100 * Ms

NewLoop == [lastTime |-> 0, accumulator |-> 0, ticks |-> 0, thrown |-> FALSE]

(* The while loop of _loop: one _update per whole step held; an exception  *)
(* thrown by _update leaves the loop before the step is taken off.         *)
RECURSIVE RunTicks(_, _, _, _)
RunTicks(W, L, input, rnd) ==
    LET next(r) ==
          IF r.kind = "fault"
          THEN [W |-> r.W, loop |-> [L EXCEPT !.ticks = @ + 1, !.thrown = TRUE]]
          ELSE RunTicks(r.W, [L EXCEPT !.accumulator = @ - STEP,
                                       !.ticks = @ + 1], input, rnd)
    IN  IF L.accumulator >= STEP
        THEN next(update(W, input, rnd))
        ELSE [W |-> W, loop |-> L]

(* _loop adding the whole elapsed time to the accumulator.                 *)
loopNoCap(W, L, timestamp, input, rnd) ==
    RunTicks(W, [lastTime |-> timestamp,
                 accumulator |-> L.accumulator + (timestamp - L.lastTime),
                 ticks |-> 0, thrown |-> FALSE], input, rnd)

(* _loop(timestamp); ticks counts the _update calls of the frame.          *)
loop(W, L, timestamp, input, rnd) ==
    RunTicks(W, [lastTime |-> timestamp,
                 accumulator |-> L.accumulator
                                   + Min(timestamp - L.lastTime, FRAME_CAP),
                 ticks |-> 0, thrown |-> FALSE], input, rnd)

MaxFrames == 5

(* Time between two frames: none, a fraction of a step, one step and its   *)
(* neighbours, the cap and its neighbours, and half a second.              *)
FrameDeltas ==
    {0, STEP \div 2, STEP - 1, STEP, STEP + 1, FRAME_CAP - 1, FRAME_CAP,
     FRAME_CAP + 1, 5 * FRAME_CAP}

InitLoop ==
    /\ harness = "loop"
    /\ \E aiMode \in BOOLEAN :
          LET W == startGame(aiMode, FALSE)
          IN  /\ game = W.g
              /\ grid = W.t
              /\ player = W.p
              /\ ai = W.a
    /\ ent = NewLoop
    /\ obs = NoObs
    /\ steps = 0

Frame ==
    /\ harness = "loop"
    /\ steps < MaxFrames
    /\ \E delta \in FrameDeltas, input \in InputsRead(game.state),
          rnd \in RandomRead :
          LET done(r) ==
                /\ SetWorld(r.W)
                /\ ent' = r.loop
                /\ obs' = Obs("frame", ent, NoObj, <<>>, <<>>,
                              [delta |-> delta])
          IN  done(loop(World, ent, ent.lastTime + delta, input, rnd))
    /\ steps' = steps + 1
    /\ UNCHANGED harness

NextLoop == Frame

SpecLoop == InitLoop /\ [][NextLoop]_vars

FrameRan == harness = "loop" /\ obs.op = "frame"

\* C25: a frame runs a whole number of ticks, one per full step held in the
\* accumulator after adding the elapsed time capped at 100 ms; after the
\* frame 0 <= accumulator < step, and at most 6 ticks ran.
C25_FixedTimestep ==
    FrameRan =>
        /\ 0 <= ent.accumulator
        /\ ent.accumulator < STEP
        /\ ent.ticks <= 6
        /\ ent.ticks * STEP + ent.accumulator
              = obs.pre.accumulator + Min(obs.ret.delta, FRAME_CAP)

(* A frame half a second after the last one runs 6 ticks.                  *)
C25_Witness ==
    /\ FrameRan
    /\ obs.ret.delta > FRAME_CAP
    /\ obs.pre.accumulator > 0
    /\ ent.ticks = 6

---------------------------------------------------------------------------
(* The API rate limiter of the server: one map entry per client IP holding *)
(* the start of its window and the requests counted in it.  Time is in ms  *)
(* since the server started; the log of admitted requests is a ghost that  *)
(* keeps, per IP, the admission times of the last RATE_LIMIT_WINDOW ms.    *)

RATE_LIMIT_WINDOW == 60000

RATE_LIMIT_MAX == 30

CLEANUP_INTERVAL == 120000

TOO_MANY_REQUESTS == 429

(* The middleware sets no status when it passes the request on.           *)
NEXT == 0

rateLimit(rateLimitMap, ip, now) ==
    LET entry == rateLimitMap[ip]
    IN  IF entry = NoObj \/ now - entry.start > RATE_LIMIT_WINDOW
        THEN [rateLimitMap |->
                  [rateLimitMap EXCEPT ![ip] = [start |-> now, count |-> 1]],
              status |-> NEXT]
        ELSE [rateLimitMap |->
                  [rateLimitMap EXCEPT ![ip].count = entry.count + 1],
              status |-> IF entry.count + 1 > RATE_LIMIT_MAX
                         THEN TOO_MANY_REQUESTS ELSE NEXT]

cleanup(rateLimitMap, now) ==
    [ip \in DOMAIN rateLimitMap |->
        IF rateLimitMap[ip] # NoObj
              /\ now - rateLimitMap[ip].start > RATE_LIMIT_WINDOW
        THEN NoObj ELSE rateLimitMap[ip]]

MaxRequests == 5

MaxAdvances == 3

ClientIPs == {"10.0.0.1", "10.0.0.2"}

ClockDeltas == {1, RATE_LIMIT_WINDOW}

(* A client sends one request, or a burst of them within one millisecond.  *)
BurstSizes == {1, RATE_LIMIT_MAX - 1}

Recent(log, now) ==
    SelectSeq(log, LAMBDA t : now - t < RATE_LIMIT_WINDOW)

(* One request through the middleware: S holds the map, the log of the    *)
(* client's admitted requests and the answer to the last request.          *)
requestOnce(S, ip, now) ==
    LET done(r) ==
          [rateLimitMap |-> r.rateLimitMap,
           admitted |-> IF r.status = NEXT THEN Append(S.admitted, now)
                        ELSE S.admitted,
           status |-> r.status]
    IN  done(rateLimit(S.rateLimitMap, ip, now))

(* n requests of one client, one after the other.                          *)
RECURSIVE Requests(_, _, _, _)
Requests(S, ip, now, n) ==
    IF n = 0 THEN S
    ELSE CHOOSE T \in {Requests(R, ip, now, n - 1) :
                          R \in {requestOnce(S, ip, now)}} : TRUE

InitServer ==
    /\ harness = "server"
    /\ ent = [now |-> 0,
              rateLimitMap |-> [ip \in ClientIPs |-> NoObj],
              nextCleanup |-> CLEANUP_INTERVAL,
              advances |-> 0,
              admitted |-> [ip \in ClientIPs |-> <<>>]]
    /\ grid = NoObj /\ player = NoObj /\ ai = NoObj /\ game = NoObj
    /\ obs = NoObs
    /\ steps = 0

Request ==
    /\ harness = "server"
    /\ steps < MaxRequests
    /\ \E ip \in ClientIPs, n \in BurstSizes :
          LET done(r) ==
                /\ ent' = [ent EXCEPT
                      !.rateLimitMap = r.rateLimitMap,
                      !.admitted[ip] = r.admitted]
                /\ obs' = Obs("request",
                              [ip |-> ip, n |-> n,
                               admitted |-> Len(ent.admitted[ip])],
                              NoObj, <<>>, <<>>, r.status)
          IN  done(Requests([rateLimitMap |-> ent.rateLimitMap,
                             admitted |-> ent.admitted[ip],
                             status |-> NEXT], ip, ent.now, n))
    /\ steps' = steps + 1
    /\ UNCHANGED <<grid, player, ai, game, harness>>

Advance ==
    /\ harness = "server"
    /\ ent.advances < MaxAdvances
    /\ ent.now < ent.nextCleanup
    /\ \E delta \in ClockDeltas :
          ent' = [ent EXCEPT
                    !.now = ent.now + delta,
                    !.advances = ent.advances + 1,
                    !.admitted = [ip \in ClientIPs |->
                                    Recent(ent.admitted[ip], ent.now + delta)]]
    /\ obs' = Obs("advance", NoObj, NoObj, <<>>, <<>>, "none")
    /\ UNCHANGED <<grid, player, ai, game, harness, steps>>

Cleanup ==
    /\ harness = "server"
    /\ ent.now >= ent.nextCleanup
    /\ ent' = [ent EXCEPT
                 !.rateLimitMap = cleanup(ent.rateLimitMap, ent.now),
                 !.nextCleanup = ent.nextCleanup + CLEANUP_INTERVAL]
    /\ obs' = Obs("cleanup", [rateLimitMap |-> ent.rateLimitMap], NoObj,
                  <<>>, <<>>, "none")
    /\ UNCHANGED <<grid, player, ai, game, harness, steps>>

NextServer == Request \/ Advance \/ Cleanup

SpecServer == InitServer /\ [][NextServer]_vars

Requested == harness = "server" /\ obs.op = "request"

\* C27: for every client IP at most 30 requests are admitted within any
\* 60-second interval; a request made when 30 were already admitted in the
\* last 60 seconds is answered with status 429 and is not admitted.
C27_RateLimit ==
    harness = "server" =>
        /\ \A ip \in ClientIPs :
              Len(Recent(ent.admitted[ip], ent.now)) <= RATE_LIMIT_MAX
        /\ (Requested /\ obs.pre.admitted >= RATE_LIMIT_MAX) =>
              obs.ret = TOO_MANY_REQUESTS

---------------------------------------------------------------------------
(* Ticks of the physics harness: applyGravity, then resolveCollisions.     *)

(* The solid tiles whose box the box b overlaps.                           *)
SolidOverlaps(b, g) ==
    { t \in (((b.x \div TILE_SIZE) - 1) .. (((b.x + b.w) \div TILE_SIZE) + 1))
              \X (((b.y \div TILE_SIZE) - 1) .. (((b.y + b.h) \div TILE_SIZE) + 1)) :
        isSolid(g, t[1], t[2]) /\ intersects(b, TileBox(t[1], t[2])) }

(* The entity's feet are on the top edge of a solid tile under its box and *)
(* its box is inside no solid tile.                                        *)
StandsOnGround(e, g) ==
    /\ (e.y + e.h) % TILE_SIZE = 0
    /\ SolidOverlaps(BoxOf(e), g) = {}
    /\ \E col \in (e.x \div TILE_SIZE) .. ((e.x + e.w) \div TILE_SIZE) :
          /\ isSolid(g, col, (e.y + e.h) \div TILE_SIZE)
          /\ e.x + e.w > col * TILE_SIZE

(* resolveCollisions has just run on a landed entity that stood at rest on *)
(* the ground when applyGravity gave it its first GRAVITY of downward      *)
(* speed.                                                                  *)
RestingTick ==
    /\ harness = "entity"
    /\ Resolved
    /\ obs.pre.onGround = TRUE
    /\ obs.pre.vx = 0
    /\ obs.pre.vy = GRAVITY
    /\ StandsOnGround(obs.pre, grid)

\* C28: an entity standing at rest on solid ground (vx = 0) is grounded
\* after a tick's applyGravity and resolveCollisions, and is still standing
\* at rest there, so that its onGround flag stays true tick after tick.
C28_StableGrounding ==
    RestingTick =>
        /\ ent.onGround = TRUE
        /\ ent.vy = 0
        /\ ent.y = obs.pre.y

---------------------------------------------------------------------------
(* Tick harness: one entity between walls, its velocity written by its own *)
(* update and then one physics tick run on it, as every entity's update    *)
(* in the game loop does (applyGravity, then resolveCollisions).           *)

MaxTickSteps == 4

TickGrids ==
    { << <<".", ".", ".", ".", ".">>,
         <<".", ".", ".", ".", ".">>,
         <<".", ".", ".", ".", ".">>,
         <<".", ".", ".", ".", ".">>,
         <<"#", "#", "#", "#", "#">> >>,
      << <<".", ".", ".", ".", ".">>,
         <<".", "B", "B", ".", ".">>,
         <<"#", ".", ".", ".", "#">>,
         <<"#", ".", ".", ".", "#">>,
         <<"#", "#", "#", "#", "#">> >> }

TickVys == {-10 * Unit, 0, 4 * Unit}

InitTick ==
    /\ grid \in TickGrids
    /\ \E x \in PhysXs, y \in PhysYs :
          ent = PhysEntity(x, y, 0, 0, FALSE)
    /\ player = NoObj
    /\ ai = NoObj
    /\ game = NoObj
    /\ harness = "tick"
    /\ obs = NoObs
    /\ steps = 0

TickSetVelocity ==
    /\ harness = "tick"
    /\ steps < MaxTickSteps
    /\ \E vx \in PhysVxs, vy \in TickVys :
          ent' = [ent EXCEPT !.vx = vx, !.vy = vy]
    /\ obs' = Obs("set", ent, NoObj, <<>>, <<>>, "none")
    /\ steps' = steps + 1
    /\ UNCHANGED <<grid, player, ai, game, harness>>

PhysTick ==
    /\ harness = "tick"
    /\ steps < MaxTickSteps
    /\ LET done(r) ==
             /\ ent' = r.e
             /\ obs' = Obs("tick", ent, r.mid, r.xhits, r.hits,
                           applyGravity(ent))
       IN  done(resolveCollisions(applyGravity(ent), grid, TRUE))
    /\ steps' = steps + 1
    /\ UNCHANGED <<grid, player, ai, game, harness>>

NextTick == TickSetVelocity \/ PhysTick

SpecTick == InitTick /\ [][NextTick]_vars

Ticked == harness = "tick" /\ obs.op = "tick"

\* C29: an entity whose box overlaps no solid tile before a tick and that
\* moves less than one tile per tick on each axis overlaps no solid tile
\* after the tick's applyGravity and resolveCollisions.
C29_NoPenetration ==
    (/\ Ticked
     /\ SolidOverlaps(BoxOf(obs.pre), grid) = {}
     /\ Abs(obs.ret.vx) < TILE_SIZE
     /\ Abs(obs.ret.vy) < TILE_SIZE)
        => SolidOverlaps(BoxOf(ent), grid) = {}

(* The solid tiles of the scanned range that the box overlaps once the     *)
(* entity m (as applyGravity left it) has made its X move.                 *)
MovedX(m) == AABB(m.x + m.vx, m.y, m.w, m.h)

OverlappedX(m, g) ==
    LET b == MovedX(m)
    IN  { t \in ((b.x \div TILE_SIZE) .. ((b.x + b.w - Unit) \div TILE_SIZE))
                \X ((b.y \div TILE_SIZE) .. ((b.y + b.h - Unit) \div TILE_SIZE)) :
            isSolid(g, t[1], t[2]) /\ intersects(b, TileBox(t[1], t[2])) }

(* Running the pass of one axis again on the entity e changes nothing and  *)
(* calls onHeadHit for no tile.                                            *)
PassRepeats(e, g, isX) ==
    LET same(r) == r.e = e /\ r.hits = <<>>
    IN  same(resolveAxis([e |-> e, hits |-> <<>>], g, isX, TRUE))

\* C30: when the moved box overlaps several solid tiles in the pass of one
\* axis, the position on that axis is corrected once, by the first
\* overlapping tile in row-major order, the velocity on that axis is left
\* at 0, at most one head hit is reported, and running the pass again does
\* not move the entity.
C30_FirstTileCorrects ==
    Ticked =>
        /\ Cardinality(OverlappedX(obs.ret, grid)) >= 2 =>
              /\ obs.mid.x =
                    IF obs.ret.vx > 0
                    THEN FirstTile(OverlappedX(obs.ret, grid))[1] * TILE_SIZE
                            - obs.mid.w
                    ELSE IF obs.ret.vx < 0
                    THEN (FirstTile(OverlappedX(obs.ret, grid))[1] + 1) * TILE_SIZE
                    ELSE obs.ret.x
              /\ obs.mid.vx = 0
              /\ obs.xhits = <<>>
              /\ PassRepeats(obs.mid, grid, TRUE)
        /\ Cardinality(OverlappedY(obs.mid, grid)) >= 2 =>
              /\ ent.y =
                    IF obs.mid.vy > 0
                    THEN FirstTile(OverlappedY(obs.mid, grid))[2] * TILE_SIZE
                            - ent.h
                    ELSE IF obs.mid.vy < 0
                    THEN (FirstTile(OverlappedY(obs.mid, grid))[2] + 1) * TILE_SIZE
                    ELSE obs.mid.y
              /\ ent.vy = 0
              /\ Len(obs.hits) <= 1
              /\ PassRepeats(ent, grid, FALSE)

(* A jump under two bricks: both overlap the moved box, the first one      *)
(* stops the entity and is the only one reported.                          *)
C30_Witness ==
    /\ Ticked
    /\ obs.mid.vy < 0
    /\ Cardinality(OverlappedY(obs.mid, grid)) >= 2
    /\ obs.hits = << FirstTile(OverlappedY(obs.mid, grid)) >>
    /\ ent.y # obs.mid.y + obs.mid.vy

---------------------------------------------------------------------------
(* Life harness: the game in the middle of play on a small level, with two *)
(* enemies walking side by side towards the player's start, a '?' block    *)
(* over it, a star that has finished rising and the goal at the far end.   *)
(* Ticks are those of _update; steps counts the ticks a live player plays  *)
(* and ent.paused the ticks spent in PAUSED.                               *)

MaxLifeTicks == 3

MaxPausedTicks == 2

LifeGrid ==
    << <<".", ".", ".", ".", ".", ".", ".", ".">>,
       <<".", ".", ".", ".", ".", ".", ".", ".">>,
       <<".", ".", ".", ".", ".", ".", ".", ".">>,
       <<".", ".", ".", ".", ".", ".", ".", ".">>,
       <<".", ".", ".", ".", ".", ".", ".", ".">>,
       <<".", ".", ".", "?", ".", ".", ".", ".">>,
       <<".", ".", ".", ".", ".", ".", ".", ".">>,
       <<".", ".", ".", ".", ".", ".", ".", ".">>,
       <<"#", "#", "#", "#", "#", "#", "#", "#">>,
       <<"#", "#", "#", "#", "#", "#", "#", "#">> >>

(* The y of an entity standing in the row over the ground.                 *)
LifeRowY == 7 * TILE_SIZE

LifeLevel ==
    [playerStart |-> [x |-> 3 * TILE_SIZE, y |-> LifeRowY],
     aiStart |-> [x |-> 0, y |-> LifeRowY],
     width |-> 8 * TILE_SIZE, height |-> 10 * TILE_SIZE]

(* Two enemies placed one tile apart; the second has walked up to the      *)
(* first one.                                                              *)
LifeEnemies ==
    << NewEnemy(4 * TILE_SIZE, LifeRowY + 2 * Unit),
       [NewEnemy(5 * TILE_SIZE, LifeRowY + 2 * Unit)
           EXCEPT !.x = 4 * TILE_SIZE + Unit] >>

(* A star out of its block, on the ground one tile left of the start.      *)
LifeStar ==
    [NewPowerup("star", 2 * TILE_SIZE, LifeRowY + 2 * Unit)
        EXCEPT !.spawnTimer = 16, !.vx = 0]

(* lives left, enemies on the level, star on the level, star time left,   *)
(* and whether the AI ghost plays along.                                   *)
LifeScene(lives, enemies, star, starTimer, aiMode) ==
    [lives |-> lives, enemies |-> enemies, star |-> star,
     starTimer |-> starTimer, aiMode |-> aiMode]

LifeScenes ==
    { LifeScene(START_LIVES, 2, FALSE, 0, FALSE),
      LifeScene(START_LIVES, 2, FALSE, 0, TRUE),
      LifeScene(1, 2, FALSE, 0, FALSE),
      LifeScene(START_LIVES, 1, TRUE, 0, FALSE),
      LifeScene(START_LIVES, 2, FALSE, 2, FALSE) }

LifeInputs ==
    { GameInput(FALSE, FALSE, FALSE, FALSE, FALSE),
      GameInput(TRUE, FALSE, FALSE, FALSE, FALSE),
      GameInput(FALSE, TRUE, FALSE, FALSE, FALSE),
      GameInput(FALSE, FALSE, FALSE, TRUE, FALSE),
      GameInput(FALSE, FALSE, FALSE, FALSE, TRUE) }

InitLife ==
    /\ harness = "life"
    /\ grid = LifeGrid
    /\ \E scene \in LifeScenes :
          /\ game = [NewGame(scene.aiMode, FALSE) EXCEPT
                        !.state = "PLAYING", !.readyTimer = 0,
                        !.level = LifeLevel,
                        !.timer = 400 * 60 - READY_TICKS,
                        !.enemies = SubSeq(LifeEnemies, 1, scene.enemies),
                        !.flags = <<NewFlag(7 * TILE_SIZE, LifeRowY)>>,
                        !.stars = IF scene.star THEN <<LifeStar>> ELSE <<>>,
                        !.deathCount = START_LIVES - scene.lives,
                        !.starTimer = scene.starTimer]
          /\ player = [NewPlayer(LifeLevel.playerStart.x, LifeLevel.playerStart.y)
                          EXCEPT !.lives = scene.lives,
                                 !.starPower = scene.starTimer > 0]
          /\ ai = IF scene.aiMode
                  THEN NewAIPlayer(LifeLevel.aiStart.x, LifeLevel.aiStart.y)
                  ELSE NoObj
    /\ ent = [paused |-> 0]
    /\ obs = NoObs
    /\ steps = 0

LifeObs(op, kind, respawned) ==
    Obs(op, [player |-> player, ai |-> ai, game |-> game, tiles |-> grid],
        NoObj, <<>>, <<>>, [kind |-> kind, respawned |-> respawned])

LifeTick ==
    /\ harness = "life"
    /\ (game.state = "PLAYING" /\ player.alive) => steps < MaxLifeTicks
    /\ game.state = "PAUSED" => ent.paused < MaxPausedTicks
    /\ \E input \in InputsRead(game.state) \cap LifeInputs, rnd \in RandomRead :
          LET done(r) ==
                /\ (r.kind = "load" /\ game.state = "LEVEL_COMPLETE")
                       => game.currentLevel < MaxLevel
                /\ SetWorld(r.W)
                /\ obs' = LifeObs("tick", r.kind, r.respawned)
                /\ steps' = IF r.kind \in {"played", "fault"} /\ player.alive
                            THEN steps + 1 ELSE steps
                /\ ent' = IF r.kind = "paused"
                          THEN [ent EXCEPT !.paused = @ + 1] ELSE ent
          IN  done(update(World, input, rnd))
    /\ UNCHANGED harness

LifeTimeout ==
    /\ harness = "life"
    /\ game.timeouts > 0
    /\ SetWorld(levelCompleteTimeout(World))
    /\ obs' = LifeObs("timeout", "timeout", FALSE)
    /\ UNCHANGED <<ent, harness, steps>>

NextLife == LifeTick \/ LifeTimeout

SpecLife == InitLife /\ [][NextLife]_vars

LifePlayed == harness = "life" /\ obs.op = "tick" /\ obs.ret.kind = "played"

\* C31: in one tick of the game the player's lives decrease by at most 1,
\* also when the player overlaps two live enemies in the collision pass.
C31_OneLifePerDeath ==
    LifePlayed => player.lives >= obs.pre.player.lives - 1

\* C32: a tick played while the player is dead, short of the respawn,
\* leaves the player's score and coins as they were, and the tile grid too
\* when no AI player is there to hit a block.
C32_DeadPlayerInert ==
    (LifePlayed /\ ~obs.pre.player.alive /\ ~obs.ret.respawned) =>
        /\ player.score = obs.pre.player.score
        /\ player.coins = obs.pre.player.coins
        /\ ai = NoObj => grid = obs.pre.tiles

(* A played tick that began with the player dead and its deathTimer at n.  *)
DeadTick(n) ==
    LifePlayed /\ ~obs.pre.player.alive /\ obs.pre.player.deathTimer = n

\* C33: in play a dead player stays dead, and the game PLAYING, through the
\* ticks that take its deathTimer up to 90; the tick that takes it to 91
\* respawns the player at the level's start, and the AI at its own, when
\* lives > 0, and enters GAME_OVER otherwise; GAME_OVER is entered by no
\* other step.
C33_DeathLifecycle ==
    harness = "life" =>
        /\ \A n \in 0 .. 89 :
              DeadTick(n) => (~player.alive /\ player.deathTimer = n + 1
                              /\ game.state = "PLAYING" /\ ~obs.ret.respawned)
        /\ (LifePlayed /\ ~obs.pre.player.alive) => obs.pre.player.deathTimer <= 90
        /\ (DeadTick(90) /\ obs.pre.player.lives > 0) =>
              /\ obs.ret.respawned
              /\ player.alive
              /\ player.lives = obs.pre.player.lives
              /\ player.x = game.level.playerStart.x
              /\ player.y = game.level.playerStart.y
              /\ game.state = "PLAYING"
              /\ ai # NoObj => (ai.alive /\ ai.x = game.level.aiStart.x
                                /\ ai.y = game.level.aiStart.y)
        /\ (DeadTick(90) /\ obs.pre.player.lives <= 0) =>
              (game.state = "GAME_OVER" /\ ~player.alive)
        /\ (obs.op # "init" /\ game.state = "GAME_OVER"
              /\ obs.pre.game.state # "GAME_OVER") =>
              (DeadTick(90) /\ obs.pre.player.lives <= 0)

(* The 91st tick after a death respawns the player and the AI with it.     *)
C33_Witness ==
    /\ DeadTick(90)
    /\ obs.ret.respawned
    /\ player.alive
    /\ ai # NoObj /\ obs.pre.ai.x # ai.x /\ ai.x = game.level.aiStart.x


(***************************************************************************)
(* The approach override of the AI agent (achievements.js 186-200,         *)
(* 240-263), read off the last AIPlayer.update of the unit harness.        *)
(***************************************************************************)

(* The agent as _decide sees it: frameCount already incremented.           *)
DecidingAI == [obs.pre EXCEPT !.frameCount = @ + 1]

EnemyAheadDx ==
    LET ne == findNearestEnemy(DecidingAI, obs.ret.entities)
    IN  IF ne = NoObj THEN 0 ELSE ne.x - DecidingAI.x

CoinBehind ==
    LET nc == findNearestCoin(DecidingAI, obs.ret.entities)
    IN  /\ nc # NoObj
        /\ nc.x - DecidingAI.x < -10 * Unit
        /\ Abs(nc.y - DecidingAI.y) < 30 * Unit

ApproachCase ==
    /\ harness = "ai"
    /\ obs.op = "update"
    /\ obs.ret.decided
    /\ DecidingAI.frameCount % DecidingAI.reactionDelay >= 2
    /\ EnemyAheadDx > 0
    /\ EnemyAheadDx < 80 * Unit
    /\ ~(EnemyAheadDx < 35 * Unit /\ obs.pre.onGround)
    /\ ~CoinBehind

\* C34: on an update where the secondary rules are evaluated, the nearest
\* live enemy is ahead with 0 < dx < 80 and neither the stomp-range jump
\* rule nor the coin-behind rule fires, the agent's vx after the update is
\* max(0.8, dx/40), which is below its move speed, and the rightward run
\* is not applied.
C34_ApproachOverride ==
    ApproachCase =>
        /\ ai.vx = Max((8 * Unit) \div 10, EnemyAheadDx \div 40)
        /\ ai.vx < ai.moveSpeed
        /\ ~obs.ret.input.right
        /\ ~obs.ret.input.left

C34_Witness ==
    /\ ApproachCase
    /\ ai.vx > (8 * Unit) \div 10
    /\ ai.vx # obs.pre.vx

(***************************************************************************)
(* Pause (game.js 665-680, 716-742), read off the last tick of the life    *)
(* harness.                                                                *)
(***************************************************************************)

PausedTick == harness = "life" /\ obs.op = "tick" /\ obs.ret.kind = "paused"

\* C35: a tick taken while the game state is PAUSED advances no gameplay
\* state: player, AI and enemies, the level timer, the tile grid and the
\* remaining star-power time are what they were before the tick.
C35_PauseFreezes ==
    PausedTick =>
        /\ player = obs.pre.player
        /\ ai = obs.pre.ai
        /\ game.enemies = obs.pre.game.enemies
        /\ game.timer = obs.pre.game.timer
        /\ grid = obs.pre.tiles
        /\ game.starTimer = obs.pre.game.starTimer

(***************************************************************************)
(* Star power (game.js 675-680, 812-818, 918-934, 1034-1055), read off     *)
(* the life harness.                                                       *)
(***************************************************************************)

LifeTicked == harness = "life" /\ obs.op = "tick"

StarCollectedNow ==
    \E i \in 1..Len(game.stars) :
        /\ i <= Len(obs.pre.game.stars)
        /\ game.stars[i].collected
        /\ ~obs.pre.game.stars[i].collected

\* C36: at every tick boundary player.starPower holds exactly when
\* _starTimer > 0; star power starts only on a tick that collects a star,
\* with the timer at 600; it ends only by timer expiry, respawn, next level
\* or restart; and a player that has star power does not die.
C36_StarPowerAgrees ==
    /\ harness = "life" => (player.starPower <=> game.starTimer > 0)
    /\ (LifeTicked /\ ~obs.pre.player.starPower /\ player.starPower) =>
           /\ obs.ret.kind = "played"
           /\ StarCollectedNow
           /\ game.starTimer = STAR_TICKS
    /\ (LifeTicked /\ obs.pre.player.starPower /\ ~player.starPower) =>
           \/ obs.pre.game.starTimer = 1
           \/ obs.ret.respawned
           \/ obs.ret.kind = "load"
    /\ (LifeTicked /\ obs.pre.player.alive /\ ~player.alive) =>
           \/ ~obs.pre.player.starPower
           \/ obs.pre.game.starTimer = 1
    /\ (LifeTicked /\ player.starPower /\ obs.ret.kind = "played") =>
           player.lives = obs.pre.player.lives

C36_Witness ==
    /\ LifeTicked
    /\ obs.ret.kind = "played"
    /\ obs.pre.player.starPower
    /\ player.starPower
    /\ player.alive
    /\ \E i \in 1..Len(game.enemies) :
          /\ obs.pre.game.enemies[i].alive
          /\ checkEntityCollision(player, obs.pre.game.enemies[i])

(***************************************************************************)
(* The goal bonus (game.js 936-972), read off the last tick of the game    *)
(* harness.  A contestant that has been paid is finished; finished is      *)
(* cleared only by a respawn or a level load.                              *)
(***************************************************************************)

AIPaidAgain ==
    /\ PlayedTick
    /\ obs.pre.ai # NoObj
    /\ obs.pre.ai.finished
    /\ ai.score >= obs.pre.ai.score + 1000

PlayerPaidAgain ==
    /\ PlayedTick
    /\ obs.pre.player.finished
    /\ player.score >= obs.pre.player.score + 1000

\* C37: within one level the AI's goal bonus (+1000 on touching the flag)
\* is awarded at most once and the player's goal bonus is awarded at most
\* once: a contestant already paid on this level is not paid on a later
\* tick.
C37_GoalBonusOnce == ~AIPaidAgain /\ ~PlayerPaidAgain

PlayerBonusOnce == ~PlayerPaidAgain

(***************************************************************************)
(* Winning (game.js 953-963, levels.js 297-299), read off the goal's       *)
(* timer callback in the game harness.                                     *)
(***************************************************************************)

GoalTimeout == harness = "game" /\ obs.op = "timeout"

\* C38: there is a last level - the third, the last of the level table -
\* and the goal's timer callback on it moves the game to WIN rather than
\* to LEVEL_COMPLETE.
C38_LastLevelWins ==
    (GoalTimeout /\ obs.pre.currentLevel + 1 = Len(LevelMaps)) =>
        game.state = "WIN"

(* The game is never in the WIN state.                                     *)
NeverWon == harness = "game" => game.state # "WIN"

(***************************************************************************)
(* Multiplayer rooms (multiplayer.js).  The module's Map `rooms` is a      *)
(* function from the codes present to room records; every connection has   *)
(* its closure variables currentRoom and playerSlot.  A value of null is   *)
(* the string "null".                                                      *)
(***************************************************************************)

null == "null"

MAX_AGE == 1800000
SWEEP_INTERVAL == 60000
ROOM_SIZE == 2

MaxRoomEvents == 5
MaxSweeps == 2

SocketIds == {"s1", "s2", "s3"}

(* The codes generateRoomCode can draw.                                    *)
RoomCodes == {"AB23", "CD45"}

(* Arguments a client sends with join-room.                                *)
JoinArgs ==
    { [type |-> "string", value |-> "AB23"],
      [type |-> "string", value |-> "CD45"],
      [type |-> "string", value |-> " ab23 "],
      [type |-> "string", value |-> "ZZZZ"],
      [type |-> "number", value |-> "7"] }

(* The numbers of sweep intervals that pass between two events.            *)
IntervalCounts == {1, 30}

(* code.toUpperCase().trim() on the strings of JoinArgs.                   *)
toUpperCaseTrim(value) ==
    IF value = " ab23 " THEN "AB23" ELSE value

(* rooms.delete(code) and rooms.set(code, room).                           *)
roomsDelete(table, code) == [c \in DOMAIN table \ {code} |-> table[c]]

roomsSet(table, code, room) ==
    [c \in DOMAIN table \cup {code} |-> IF c = code THEN room ELSE table[c]]

(* generateRoomCode(): the codes it can return, those not in the table.    *)
generateRoomCode(table) == RoomCodes \ DOMAIN table

(* leaveRoom(socket, code, slot): the table after it.                      *)
leaveRoom(table, id, code) ==
    IF code \notin DOMAIN table THEN table
    ELSE LET stay(p) == p # id
             players == SelectSeq(table[code].players, stay)
         IN  IF Len(players) = 0 THEN roomsDelete(table, code)
             ELSE [table EXCEPT ![code].players = players]

(* The connection's `if (currentRoom) leaveRoom(...)`.                     *)
leaveCurrent(table, id, sock) ==
    IF sock.currentRoom # null THEN leaveRoom(table, id, sock.currentRoom)
    ELSE table

(* socket.on('create-room'): [rooms, sock, ret] for the code drawn.        *)
createRoom(table, id, sock, code, now) ==
    [rooms |-> roomsSet(table, code,
                        [players |-> <<id>>, created |-> now, level |-> 0]),
     sock  |-> [sock EXCEPT !.currentRoom = code, !.playerSlot = 0],
     ret   |-> [code |-> code, slot |-> 0]]

(* socket.on('join-room').  `room` is the object read before leaveRoom;    *)
(* the push reaches the table only if that object is still in it.          *)
joinRoom(table, id, sock, arg) ==
    LET code == toUpperCaseTrim(arg.value)
        left == leaveCurrent(table, id, sock)
    IN  IF arg.type # "string"
        THEN [rooms |-> table, sock |-> sock,
              ret |-> [error |-> "Invalid room code."]]
        ELSE IF code \notin DOMAIN table
        THEN [rooms |-> table, sock |-> sock,
              ret |-> [error |-> "Room not found."]]
        ELSE IF Len(table[code].players) >= ROOM_SIZE
        THEN [rooms |-> table, sock |-> sock,
              ret |-> [error |-> "Room is full."]]
        ELSE [rooms |-> IF code \in DOMAIN left
                        THEN [left EXCEPT ![code].players = Append(@, id)]
                        ELSE left,
              sock  |-> [sock EXCEPT !.currentRoom = code, !.playerSlot = 1],
              ret   |-> [code |-> code, slot |-> 1]]

(* The setInterval callback at time now.                                   *)
staleRoomCleanup(table, now) ==
    LET kept == { c \in DOMAIN table :
                    ~(now - table[c].created > MAX_AGE
                      \/ Len(table[c].players) = 0) }
    IN  [c \in kept |-> table[c]]

(* Rooms harness: three connections, each sending create-room, join-room   *)
(* and disconnect in any order, and the sweep timer.                       *)
InitRooms ==
    /\ harness = "rooms"
    /\ ent = [now |-> 0,
              rooms |-> [c \in {} |-> NoObj],
              sockets |-> [id \in SocketIds |->
                              [connected |-> TRUE, currentRoom |-> null,
                               playerSlot |-> null]],
              sweeps |-> 0]
    /\ grid = NoObj /\ player = NoObj /\ ai = NoObj /\ game = NoObj
    /\ obs = NoObs
    /\ steps = 0

RoomEvent(id) ==
    /\ harness = "rooms"
    /\ ent.sockets[id].connected
    /\ steps < MaxRoomEvents
    /\ steps' = steps + 1
    /\ UNCHANGED <<grid, player, ai, game, harness>>

RoomDone(op, id, r) ==
    /\ ent' = [ent EXCEPT !.rooms = r.rooms, !.sockets[id] = r.sock]
    /\ obs' = Obs(op, [id |-> id], NoObj, <<>>, <<>>, r.ret)

CreateRoom ==
    \E id \in SocketIds :
        /\ RoomEvent(id)
        /\ LET left == leaveCurrent(ent.rooms, id, ent.sockets[id])
           IN  \E code \in generateRoomCode(left) :
                   RoomDone("create-room", id,
                            createRoom(left, id, ent.sockets[id], code, ent.now))

JoinRoom ==
    \E id \in SocketIds, arg \in JoinArgs :
        /\ RoomEvent(id)
        /\ RoomDone("join-room", id,
                    joinRoom(ent.rooms, id, ent.sockets[id], arg))

Disconnect ==
    \E id \in SocketIds :
        /\ RoomEvent(id)
        /\ RoomDone("disconnect", id,
                    [rooms |-> leaveCurrent(ent.rooms, id, ent.sockets[id]),
                     sock  |-> [ent.sockets[id] EXCEPT !.connected = FALSE],
                     ret   |-> [done |-> TRUE]])

(* n sweep intervals pass without an event; what the n sweeps leave is     *)
(* what the last one alone leaves.                                         *)
Sweep ==
    /\ harness = "rooms"
    /\ ent.sweeps < MaxSweeps
    /\ \E n \in IntervalCounts :
          LET now == ent.now + n * SWEEP_INTERVAL
          IN  ent' = [ent EXCEPT !.now = now,
                                 !.rooms = staleRoomCleanup(ent.rooms, now),
                                 !.sweeps = @ + 1]
    /\ obs' = Obs("sweep", NoObj, NoObj, <<>>, <<>>, [done |-> TRUE])
    /\ UNCHANGED <<grid, player, ai, game, harness, steps>>

NextRooms == CreateRoom \/ JoinRoom \/ Disconnect \/ Sweep

SpecRooms == InitRooms /\ [][NextRooms]_vars

InRoom(id) ==
    /\ ent.sockets[id].connected
    /\ ent.sockets[id].currentRoom # null

Listed(id, code) ==
    /\ code \in DOMAIN ent.rooms
    /\ \E i \in 1..Len(ent.rooms[code].players) :
          ent.rooms[code].players[i] = id

\* C39: every connected socket whose current room is code c has c present
\* in the room table with that socket listed among its players, and a
\* socket is listed in at most one room.
C39_MembershipConsistent ==
    harness = "rooms" =>
        /\ \A id \in SocketIds :
              InRoom(id) => Listed(id, ent.sockets[id].currentRoom)
        /\ \A id \in SocketIds :
              Cardinality({ c \in DOMAIN ent.rooms : Listed(id, c) }) <= 1

(* The second half of C39 alone.                                           *)
ListedOnce ==
    harness = "rooms" =>
        \A id \in SocketIds :
            /\ Cardinality({ c \in DOMAIN ent.rooms : Listed(id, c) }) <= 1
            /\ \A c \in DOMAIN ent.rooms :
                  Cardinality({ i \in 1..Len(ent.rooms[c].players) :
                                  ent.rooms[c].players[i] = id }) <= 1

\* C40: a room never lists more than 2 players, and the players listed in
\* the same room hold distinct slots.
C40_RoomSlots ==
    harness = "rooms" =>
        \A c \in DOMAIN ent.rooms :
            /\ Len(ent.rooms[c].players) <= ROOM_SIZE
            /\ \A i, j \in 1..Len(ent.rooms[c].players) :
                  LET a == ent.rooms[c].players[i]
                      b == ent.rooms[c].players[j]
                  IN  (i # j /\ InRoom(a) /\ InRoom(b)
                       /\ ent.sockets[a].currentRoom = c
                       /\ ent.sockets[b].currentRoom = c) =>
                          ent.sockets[a].playerSlot # ent.sockets[b].playerSlot

(* The first half of C40 alone.                                            *)
AtMostTwoPlayers ==
    harness = "rooms" =>
        \A c \in DOMAIN ent.rooms : Len(ent.rooms[c].players) <= ROOM_SIZE

===========================================================================
